---- MODULE Spec2Model ----
\* A model of the workflow execution engine of Tracemyflow:
\*   workflow/models.py                         the stored records
\*   workflow/services/workflow_executor.py     WorkflowExecutor (Full Runs,
\*                                              single-component re-execution)
\*   workflow/services/sub-workflow-executor.py SubWorkflowExecutor (Sub Runs)
\*   workflow/views.py                          the handlers that create a run
\*                                              record and call an executor
\*   workflow/services/connectors/*.py          the connectors, as far as the
\*                                              executor sees their results
\*
\* One executor is active at a time (a view creates the record, builds the
\* executor and calls execute() synchronously).  Every action is one stretch of
\* an executor's code between two updates of the run store, so every stored
\* state of a run is a state of the model.
EXTENDS Integers, Sequences, FiniteSets, TLC

VARIABLES
    all_components,    \* WorkflowComponent rows of the workflow, order_by('order')
    retry_strategies,  \* component id -> its first RetryStrategy row, or NoStrategy
    validation_mode,   \* WorkflowDefinition.validation_mode
    executions,        \* WorkflowExecution table (pk = index)
    sub_executions,    \* SubWorkflowExecution table (pk = index)
    statuses,          \* ComponentExecutionStatus table (pk = index)
    ex,                \* the executor object and its position in the code
    clock,             \* timezone.now()
    requests,          \* number of handlers (views) invoked so far
    dispatches,        \* history: every dispatch of a component attempt
    sleeps,            \* history: every time.sleep() of the retry loop
    database,          \* the database a DBConnector is connected to
    broker,            \* the Kafka topics and the clients of a KafkaConnector
    yaml_file,         \* the YAML document a user downloaded or uploads
    queues,            \* the message queues an MQConnector replays between
    parked             \* the executor of another request thread, not scheduled now

vars == <<all_components, retry_strategies, validation_mode, executions,
          sub_executions, statuses, ex, clock, requests, dispatches, sleeps,
          database, broker, yaml_file, queues, parked>>

definition_store == <<all_components, retry_strategies, validation_mode>>

\* The systems behind the connectors. The engine's actions see them through
\* the outcome of a connector call only (Backends) and leave them alone.
external_systems == <<database, broker, yaml_file, queues>>

----------------------------------------------------------------------------
\* Bounds of the model.

NumComponents == 3     \* components of the workflow
MaxRuns == 2           \* handlers invoked in one behaviour (runs and re-executions)
MaxOrder == 4          \* largest `order` value drawn for the range selector
MaxRetries == 3        \* largest max_retries drawn for the retry loop
MaxDelay == 2          \* largest initial_delay_seconds drawn
MaxFactor == 3         \* largest (integer) backoff_factor drawn

\* A nullable column holding NULL (timestamps are >= 1, primary keys are >= 1).
Null == 0

NoStrategy == [strategy_type |-> "none", max_retries |-> 0,
               initial_delay_seconds |-> 0, backoff_factor |-> 1]

VALIDATION_CHOICES == {"required", "optional", "none"}

STRATEGY_TYPES == {"fixed", "exponential", "custom"}

Max(a, b) == IF a >= b THEN a ELSE b

Min(a, b) == IF a <= b THEN a ELSE b

Range(s) == {s[i] : i \in 1..Len(s)}

----------------------------------------------------------------------------
\* The Range Selector: SubWorkflowExecutor._get_components_in_path.

\* The orders are swapped and the include flags are not (as in
\* views.sub_execution_detail).
NormalizeRangeKeepsFlags(start, end, inc_start, inc_end) ==
    IF start.order > end.order
    THEN [start_order |-> end.order, end_order |-> start.order,
          start_component |-> end, end_component |-> start,
          include_start |-> inc_start, include_end |-> inc_end]
    ELSE [start_order |-> start.order, end_order |-> end.order,
          start_component |-> start, end_component |-> end,
          include_start |-> inc_start, include_end |-> inc_end]

\* The components and flags are swapped and the two orders are not.
NormalizeRangeKeepsOrders(start, end, inc_start, inc_end) ==
    IF start.order > end.order
    THEN [start_order |-> start.order, end_order |-> end.order,
          start_component |-> end, end_component |-> start,
          include_start |-> inc_end, include_end |-> inc_start]
    ELSE [start_order |-> start.order, end_order |-> end.order,
          start_component |-> start, end_component |-> end,
          include_start |-> inc_start, include_end |-> inc_end]

\* Lines 41-50: the order range, and the swap of the endpoints together with
\* their include flags when the start comes after the end.
NormalizeRange(start, end, inc_start, inc_end) ==
    IF start.order > end.order
    THEN [start_order |-> end.order, end_order |-> start.order,
          start_component |-> end, end_component |-> start,
          include_start |-> inc_end, include_end |-> inc_start]
    ELSE [start_order |-> start.order, end_order |-> end.order,
          start_component |-> start, end_component |-> end,
          include_start |-> inc_start, include_end |-> inc_end]

\* The both-inclusive filter compares the end with order__lt.
FilterRangeStrictEnd(all, start_order, end_order, include_start, include_end) ==
    IF include_start
    THEN SelectSeq(all, LAMBDA c : c.order >= start_order /\ c.order < end_order)
    ELSE IF include_end
    THEN SelectSeq(all, LAMBDA c : c.order > start_order /\ c.order <= end_order)
    ELSE SelectSeq(all, LAMBDA c : c.order > start_order /\ c.order < end_order)

\* Lines 53-60: the four filters on the ordered queryset.
FilterRange(all, start_order, end_order, include_start, include_end) ==
    IF include_start /\ include_end
    THEN SelectSeq(all, LAMBDA c : c.order >= start_order /\ c.order <= end_order)
    ELSE IF include_start /\ ~include_end
    THEN SelectSeq(all, LAMBDA c : c.order >= start_order /\ c.order < end_order)
    ELSE IF ~include_start /\ include_end
    THEN SelectSeq(all, LAMBDA c : c.order > start_order /\ c.order <= end_order)
    ELSE SelectSeq(all, LAMBDA c : c.order > start_order /\ c.order < end_order)

get_components_in_path(all, start, end, inc_start, inc_end) ==
    LET n == NormalizeRange(start, end, inc_start, inc_end)
    IN FilterRange(all, n.start_order, n.end_order, n.include_start, n.include_end)

\* views.sub_execution_detail, lines 552-585: the components shown for a Sub
\* Run. The two orders are swapped when the start comes after the end (lines
\* 558-559); the four filters read the flags of the record as they are.
sub_execution_detail(all, sub_execution) ==
    LET start_order == Min(sub_execution.start_component.order,
                           sub_execution.end_component.order)
        end_order == Max(sub_execution.start_component.order,
                         sub_execution.end_component.order)
    IN FilterRange(all, start_order, end_order,
                   sub_execution.include_start, sub_execution.include_end)

----------------------------------------------------------------------------
\* The run store.

\* ComponentExecutionStatus.objects.create(..., status='pending'): the other
\* columns take the defaults of models.py lines 127-131.
NewStatus(workflow_execution, component) ==
    [workflow_execution |-> workflow_execution, component |-> component,
     status |-> "pending", started_at |-> Null, completed_at |-> Null,
     retry_count |-> 0, error_message |-> ""]

\* The primary keys of the rows .filter(workflow_execution=..., component=...) finds.
StatusRows(tbl, workflow_execution, component) ==
    {pk \in 1..Len(tbl) : /\ tbl[pk].workflow_execution = workflow_execution
                          /\ tbl[pk].component = component}

\* timestamp + message of WorkflowExecutor._log / SubWorkflowExecutor._log.
LogEntry(event, component, n) ==
    [ts |-> clock, event |-> event, component |-> component, n |-> n]

\* The entry replaces the log instead of being appended to it.
LogAppendReplaces(record, entry) ==
    [record EXCEPT !.execution_log = <<entry>>]

\* _log: the entry is appended to the executor's copy of the record, and
\* save(update_fields=['execution_log']) stores that column alone.
LogAppend(record, entry) ==
    [record EXCEPT !.execution_log = Append(@, entry)]

SaveLog(stored, record) ==
    [stored EXCEPT !.execution_log = record.execution_log]

\* The table an executor's run record lives in.
RunTable(kind) == IF kind = "sub" THEN sub_executions ELSE executions

\* The WorkflowExecution the executor's ComponentExecutionStatus rows belong
\* to: the run itself, or the parent of a Sub Run (NULL without a parent).
Owner(e) == IF e.kind = "sub" THEN e.parent ELSE e.id

----------------------------------------------------------------------------
\* The executor.

NoStatus == [pk |-> Null, workflow_execution |-> Null, component |-> Null,
             status |-> "pending", started_at |-> Null, completed_at |-> Null,
             retry_count |-> 0, error_message |-> ""]

\* WorkflowComponent.config as the executor reads it (see the component
\* operations below).
Config(operation, required) == [operation |-> operation, required |-> required]

\* A WorkflowComponent row (models.py lines 48-52).
Component(id, order, component_type, config) ==
    [id |-> id, order |-> order, component_type |-> component_type,
     config |-> config]

\* An HTTP service component with its url.
HttpService(id, order) == Component(id, order, "service", Config("http", TRUE))

NoComponent == Component(Null, 0, "", Config("", FALSE))

NoRecord == [status |-> "pending", started_at |-> Null, completed_at |-> Null,
             validation_enabled |-> FALSE, execution_log |-> <<>>]

IdleExecutor ==
    [pc |-> "idle", kind |-> "none", id |-> Null, execution |-> NoRecord,
     validation_enabled |-> FALSE, parent |-> Null,
     start_component |-> NoComponent, end_component |-> NoComponent,
     include_start |-> FALSE, include_end |-> FALSE,
     components |-> <<>>, i |-> 0, cs |-> NoStatus,
     current_retry |-> 0, max_retries |-> 0, delay_seconds |-> 0]

\* No handler is running: the previous one, if any, has returned.
Free == ex.pc \in {"idle", "done"}

\* views.execute_workflow lines 339-347, WorkflowExecutor.__init__ and
\* execute() lines 27-31: the record is created, the executor built, the run
\* set to 'running' and the start entry logged.
ExecuteWorkflow(validation_enabled) ==
    /\ Free
    /\ requests < MaxRuns
    /\ LET id == Len(executions) + 1
           created == [status |-> "pending", started_at |-> clock,
                       completed_at |-> Null,
                       validation_enabled |-> validation_enabled,
                       execution_log |-> <<>>]
           running == LogAppend([created EXCEPT !.status = "running"],
                                LogEntry("start", Null, 0))
       IN /\ executions' = Append(executions, running)
          /\ ex' = [IdleExecutor EXCEPT
                       !.pc = "init", !.kind = "full", !.id = id,
                       !.execution = running,
                       !.validation_enabled = validation_enabled,
                       !.components = all_components, !.i = 1]
    /\ clock' = clock + 1
    /\ requests' = requests + 1
    /\ UNCHANGED <<external_systems, parked, definition_store, sub_executions, statuses, dispatches, sleeps>>

\* views.execute_sub_workflow lines 507-520 (parent_execution is set by the
\* creator of the record), SubWorkflowExecutor.__init__ with
\* _get_components_in_path, and execute() lines 66-71.
ExecuteSubWorkflow(start, end, inc_start, inc_end, validation_enabled, parent) ==
    /\ Free
    /\ requests < MaxRuns
    /\ LET id == Len(sub_executions) + 1
           n == NormalizeRange(start, end, inc_start, inc_end)
           created == [status |-> "pending", started_at |-> clock,
                       completed_at |-> Null,
                       validation_enabled |-> validation_enabled,
                       execution_log |-> <<>>,
                       start_component |-> start, end_component |-> end,
                       include_start |-> inc_start, include_end |-> inc_end,
                       parent_execution |-> parent]
           running == LogAppend([created EXCEPT !.status = "running"],
                                LogEntry("start", Null, 0))
       IN /\ sub_executions' = Append(sub_executions, running)
          /\ ex' = [IdleExecutor EXCEPT
                       !.pc = "init", !.kind = "sub", !.id = id,
                       !.execution = running,
                       !.validation_enabled = validation_enabled,
                       !.parent = parent,
                       !.start_component = n.start_component,
                       !.end_component = n.end_component,
                       !.include_start = n.include_start,
                       !.include_end = n.include_end,
                       !.components = get_components_in_path(
                           all_components, start, end, inc_start, inc_end),
                       !.i = 1]
    /\ clock' = clock + 1
    /\ requests' = requests + 1
    /\ UNCHANGED <<external_systems, parked, definition_store, executions, statuses, dispatches, sleeps>>

\* WorkflowExecutor._initialize_component_statuses: one 'pending' row per
\* component of the workflow.
FullInitRows(id, components) ==
    [k \in 1..Len(components) |-> NewStatus(id, components[k].id)]

InitializeComponentStatuses ==
    /\ ex.pc = "init"
    /\ ex.kind = "full"
    /\ statuses' = statuses \o FullInitRows(ex.id, ex.components)
    /\ ex' = [ex EXCEPT !.pc = "loop"]
    /\ clock' = clock + 1
    /\ UNCHANGED <<external_systems, parked, definition_store, executions, sub_executions, requests,
                   dispatches, sleeps>>

\* SubWorkflowExecutor._initialize_component_statuses lines 118-127: the
\* parent's row of a selected component goes back to 'pending'.
ResetStatus(row) ==
    [row EXCEPT !.status = "pending", !.started_at = Null, !.completed_at = Null,
                !.retry_count = 0, !.error_message = ""]

\* Every row of the parent is reset, selected or not.
SubInitResetsParent(tbl, parent, components, k) ==
    [tbl |-> [pk \in 1..Len(tbl) |->
                 IF tbl[pk].workflow_execution = parent
                 THEN [tbl[pk] EXCEPT !.status = "pending", !.started_at = Null,
                                      !.completed_at = Null, !.retry_count = 0,
                                      !.error_message = ""]
                 ELSE tbl[pk]],
     raised |-> FALSE]

\* A row is created for every selected component, whether the parent has one
\* or not.
SubInitAlwaysCreates(tbl, parent, components, k) ==
    [tbl |-> tbl \o [j \in 1..Len(components) |-> NewStatus(parent, components[j].id)],
     raised |-> FALSE]

\* Lines 114-134, from the k-th selected component on: get() finds the
\* parent's row and resets it, finds none and creates one, or finds several
\* and raises MultipleObjectsReturned, which ends the loop.
RECURSIVE SubInitWithParent(_, _, _, _)
SubInitWithParent(tbl, parent, components, k) ==
    IF k > Len(components) THEN [tbl |-> tbl, raised |-> FALSE]
    ELSE LET found == StatusRows(tbl, parent, components[k].id)
         IN IF Cardinality(found) = 1
            THEN LET pk == CHOOSE r \in found : TRUE
                 IN SubInitWithParent([tbl EXCEPT ![pk] = ResetStatus(@)],
                                      parent, components, k + 1)
            ELSE IF found = {}
            THEN SubInitWithParent(Append(tbl, NewStatus(parent, components[k].id)),
                                   parent, components, k + 1)
            ELSE [tbl |-> tbl, raised |-> TRUE]

\* Lines 135-141: a Sub Run without a parent creates its rows without
\* workflow_execution, a column that is NOT NULL (models.py line 125): the
\* first create() raises IntegrityError and stores nothing.
SubInitStandalone(tbl, components) ==
    IF components = <<>> THEN [tbl |-> tbl, raised |-> FALSE]
    ELSE [tbl |-> tbl, raised |-> TRUE]

SubInitializeComponentStatuses ==
    /\ ex.pc = "init"
    /\ ex.kind = "sub"
    /\ LET r == IF ex.parent # Null
                THEN SubInitWithParent(statuses, ex.parent, ex.components, 1)
                ELSE SubInitStandalone(statuses, ex.components)
       IN /\ statuses' = r.tbl
          /\ ex' = [ex EXCEPT !.pc = IF r.raised THEN "except" ELSE "loop"]
    /\ clock' = clock + 1
    /\ UNCHANGED <<external_systems, parked, definition_store, executions, sub_executions, requests,
                   dispatches, sleeps>>

----------------------------------------------------------------------------
\* The component execution window: _execute_component of both executors.

StoredRun(e) == RunTable(e.kind)[e.id]

\* save() / save(update_fields=[...]) of the executor's run record.
PutRun(e, row) ==
    IF e.kind = "sub"
    THEN /\ sub_executions' = [sub_executions EXCEPT ![e.id] = row]
         /\ UNCHANGED executions
    ELSE /\ executions' = [executions EXCEPT ![e.id] = row]
         /\ UNCHANGED sub_executions

\* save() is forgotten.
SaveStatusSkipped(tbl, cs) == tbl

\* component_status.save(): every column of the row is written from the object.
SaveStatus(tbl, cs) ==
    [tbl EXCEPT ![cs.pk] =
        [workflow_execution |-> cs.workflow_execution, component |-> cs.component,
         status |-> cs.status, started_at |-> cs.started_at,
         completed_at |-> cs.completed_at, retry_count |-> cs.retry_count,
         error_message |-> cs.error_message]]

\* The object get() / get_or_create() returns for row pk.
LoadStatus(tbl, pk) ==
    [pk |-> pk, workflow_execution |-> tbl[pk].workflow_execution,
     component |-> tbl[pk].component, status |-> tbl[pk].status,
     started_at |-> tbl[pk].started_at, completed_at |-> tbl[pk].completed_at,
     retry_count |-> tbl[pk].retry_count, error_message |-> tbl[pk].error_message]

\* Lines 87-95: max_retries and the first delay, from the component's first
\* RetryStrategy if it has one.
RetryPlan(component) ==
    LET strategy == retry_strategies[component]
    IN IF strategy.strategy_type # "none"
       THEN [max_retries |-> strategy.max_retries,
             delay_seconds |-> strategy.initial_delay_seconds]
       ELSE [max_retries |-> 0, delay_seconds |-> 0]

\* The retry test off by one: the last retry is never made.
ShouldRetryStrict(current_retry, max_retries) == current_retry < max_retries

\* The loop never gives up.
ShouldRetryAlways(current_retry, max_retries) == TRUE

\* Lines 99 and 125: the loop condition and the retry test.
ShouldRetry(current_retry, max_retries) == current_retry <= max_retries

\* The backoff factor is applied under every strategy type.
NextDelayAlwaysBackoff(component, delay_seconds) ==
    delay_seconds * retry_strategies[component].backoff_factor

\* Lines 130-132: the delay slept before the next attempt.
NextDelay(component, delay_seconds) ==
    LET strategy == retry_strategies[component]
    IN IF strategy.strategy_type = "exponential"
       THEN delay_seconds * strategy.backoff_factor
       ELSE delay_seconds

\* The abort is never raised.
ValidationNeverAborts(e) == FALSE

\* The abort ignores the run's validation_enabled flag.
ValidationIgnoresRunFlag(e) == validation_mode = "required"

\* Line 143: a failed component aborts the run.
ValidationRequired(e) == e.validation_enabled /\ validation_mode = "required"

\* Lines 80-95: the row becomes 'running', the window is logged and the retry
\* state is set up.  tbl holds row pk of the component.
EnterWindow(e, tbl, pk) ==
    LET cs == [LoadStatus(tbl, pk) EXCEPT !.status = "running",
                                          !.started_at = clock]
        record == LogAppend(e.execution, LogEntry("executing", cs.component, 0))
        plan == RetryPlan(cs.component)
    IN /\ statuses' = SaveStatus(tbl, cs)
       /\ PutRun(e, SaveLog(StoredRun(e), record))
       /\ ex' = [e EXCEPT !.pc = "attempt", !.cs = cs, !.execution = record,
                          !.current_retry = 0,
                          !.max_retries = plan.max_retries,
                          !.delay_seconds = plan.delay_seconds]

\* The iteration is taken from the end of the queryset.
NextComponentFromEnd(e) == e.components[Len(e.components) + 1 - e.i]

\* execute() line 38 (Sub: 78): `for component in self.components`, the
\* queryset ordered by 'order'; e.i counts the iterations.
NextComponent(e) == e.components[e.i]

\* execute() lines 38-44 (Sub: 78-84): get() of the next component's row, then
\* the opening of its window.  get() raises unless exactly one row matches.
BeginComponent ==
    /\ ex.pc = "loop"
    /\ ex.i <= Len(ex.components)
    /\ LET found == StatusRows(statuses, Owner(ex), NextComponent(ex).id)
       IN IF Cardinality(found) = 1
          THEN EnterWindow(ex, statuses, CHOOSE pk \in found : TRUE)
          ELSE /\ ex' = [ex EXCEPT !.pc = "except"]
               /\ UNCHANGED <<executions, sub_executions, statuses>>
    /\ clock' = clock + 1
    /\ UNCHANGED <<external_systems, parked, definition_store, requests, dispatches, sleeps>>

\* views.execute_component lines 409-429 and
\* WorkflowExecutor.execute_sub_workflow: one component of a Full Run that
\* ended 'partially_completed' or 'failed' is executed again on its row.
ExecuteComponent(id, component) ==
    /\ Free
    /\ requests < MaxRuns
    /\ id \in 1..Len(executions)
    /\ executions[id].status \in {"partially_completed", "failed"}
    /\ LET e == [IdleExecutor EXCEPT
                    !.kind = "single", !.id = id, !.execution = executions[id],
                    !.validation_enabled = executions[id].validation_enabled,
                    !.components = <<component>>, !.i = 1]
           found == StatusRows(statuses, id, component.id)
       IN IF found = {}
          THEN EnterWindow(e, Append(statuses, NewStatus(id, component.id)),
                           Len(statuses) + 1)
          ELSE IF Cardinality(found) = 1
          THEN EnterWindow(e, statuses, CHOOSE pk \in found : TRUE)
          ELSE /\ ex' = [e EXCEPT !.pc = "done"]
               /\ UNCHANGED <<executions, sub_executions, statuses>>
    /\ clock' = clock + 1
    /\ requests' = requests + 1
    /\ UNCHANGED <<external_systems, parked, definition_store, dispatches, sleeps>>

\* The end of a window, lines 146-147, and the return to the caller: the run
\* loop goes to the next component, execute_sub_workflow returns.
CloseWindow(e, cs, record) ==
    /\ statuses' = SaveStatus(statuses, [cs EXCEPT !.completed_at = clock])
    /\ PutRun(e, SaveLog(StoredRun(e), record))
    /\ ex' = [e EXCEPT !.cs = [cs EXCEPT !.completed_at = clock],
                       !.execution = record,
                       !.pc = IF e.kind = "single" THEN "done" ELSE "loop",
                       !.i = e.i + 1]

----------------------------------------------------------------------------
\* The component operations of WorkflowExecutor (lines 215-779) and the
\* connectors they drive.  A component's config is read through two values:
\* `operation`, the operation_type / service_type / api_type it names ("" when
\* the key is absent), and `required`, whether every key the operation tests
\* with `if not ...` (topic, queue_name, source and target, query, script,
\* queries, url, base_url) is present and non-empty.  A backend behaviour b
\* says, for one attempt, whether connect() of the primary connector, the call
\* the operation makes, and connect() of a secondary connector succeed.

COMPONENT_TYPES == {"kafka", "mq", "db", "service", "api"}

Backends == [connect : BOOLEAN, operation : BOOLEAN, secondary : BOOLEAN]

Call(connector, method) == [connector |-> connector, method |-> method]

\* The except clause of a _simulate_* method (lines 285-287, 396-398, 575-577,
\* 647-649, 777-779): the error is logged and raised again.  `open` are the
\* connectors that were connected and not disconnected.
Raised(calls, failed, open, log) ==
    [raised |-> TRUE, calls |-> calls, failed |-> failed, open |-> open,
     log |-> log \o <<"error">>]

\* The method returns to _execute_component.
Returned(calls, failed, log) ==
    [raised |-> FALSE, calls |-> calls, failed |-> failed, open |-> {},
     log |-> log]

\* The test of the required keys is left out: the call is made without the
\* key and fails in the connector.
OperateWithoutKeyCheck(primary, methods, checked, secondary, config, b) ==
    LET connect == <<Call(primary, "connect")>>
        opened == connect \o (IF secondary # "" THEN <<Call(secondary, "connect")>>
                                                ELSE <<>>)
        called == opened \o [k \in 1..Len(methods) |-> Call(primary, methods[k])]
        closed == (IF secondary # "" THEN <<Call(secondary, "disconnect")>> ELSE <<>>)
                      \o <<Call(primary, "disconnect")>>
        failing == {Call(primary, methods[k]) : k \in 1..Len(methods)}
    IN IF secondary # "" /\ ~b.secondary
       THEN Raised(opened, {Call(secondary, "connect")}, {primary}, <<>>)
       ELSE IF b.operation /\ config.required
       THEN Returned(called \o closed, {}, <<config.operation>>)
       ELSE IF checked THEN Raised(called, failing, {primary}, <<>>)
       ELSE Returned(called \o closed, failing, <<config.operation>>)

\* One operation on a connected primary connector: the test of the required
\* keys, the secondary connector if the operation has one, the connector
\* calls, and the disconnects that only the success path reaches.  A
\* connector method catches its own exceptions and returns [], 0 or False
\* (e.g. kafka_connector.py lines 182-184); `checked` says whether the
\* executor tests the value returned by the last call.
Operate(primary, methods, checked, secondary, config, b) ==
    LET connect == <<Call(primary, "connect")>>
        opened == connect \o (IF secondary # "" THEN <<Call(secondary, "connect")>>
                                                ELSE <<>>)
        called == opened \o [k \in 1..Len(methods) |-> Call(primary, methods[k])]
        closed == (IF secondary # "" THEN <<Call(secondary, "disconnect")>> ELSE <<>>)
                      \o <<Call(primary, "disconnect")>>
        failing == {Call(primary, methods[k]) : k \in 1..Len(methods)}
    IN IF ~config.required THEN Raised(connect, {}, {primary}, <<>>)
       ELSE IF secondary # "" /\ ~b.secondary
       THEN Raised(opened, {Call(secondary, "connect")}, {primary}, <<>>)
       ELSE IF b.operation THEN Returned(called \o closed, {}, <<config.operation>>)
       ELSE IF checked THEN Raised(called, failing, {primary}, <<>>)
       ELSE Returned(called \o closed, failing, <<config.operation>>)

\* Lines 224-231, 298-305, 409-416: the connector is created and connected;
\* connect() returning False is raised.
ConnectFailed(primary) ==
    Raised(<<Call(primary, "connect")>>, {Call(primary, "connect")}, {}, <<>>)

\* Lines 279-280, 390-391, 569-570: an operation_type the method does not know.
Unsupported(primary) ==
    Raised(<<Call(primary, "connect")>>, {}, {primary}, <<>>)

\* config.get(key, default)
ConfigGet(config, default) ==
    IF config.operation = "" THEN default ELSE config.operation

\* _simulate_kafka_component, lines 215-287.
simulate_kafka_component(config, b) ==
    LET operation_type == ConfigGet(config, "consume")
        c == [config EXCEPT !.operation = operation_type]
    IN IF ~b.connect THEN ConnectFailed("kafka")
       ELSE IF operation_type = "produce"
       THEN Operate("kafka", <<"send_message">>, TRUE, "", c, b)
       ELSE IF operation_type = "consume"
       THEN Operate("kafka", <<"consume_messages">>, FALSE, "", c, b)
       ELSE IF operation_type = "replay"
       THEN Operate("kafka", <<"replay_topic_to_topic">>, FALSE, "", c, b)
       ELSE Unsupported("kafka")

\* _simulate_mq_component, lines 289-398.
simulate_mq_component(config, b) ==
    LET operation_type == ConfigGet(config, "receive")
        c == [config EXCEPT !.operation = operation_type]
    IN IF ~b.connect THEN ConnectFailed("mq")
       ELSE IF operation_type = "send"
       THEN Operate("mq", <<"declare_queue", "send_message">>, TRUE, "", c, b)
       ELSE IF operation_type = "receive"
       THEN Operate("mq", <<"receive_messages">>, FALSE, "", c, b)
       ELSE IF operation_type = "replay_queue_to_queue"
       THEN Operate("mq", <<"replay_queue_to_queue">>, FALSE, "", c, b)
       ELSE IF operation_type = "replay_queue_to_kafka"
       THEN Operate("mq", <<"replay_queue_to_kafka">>, FALSE, "kafka", c, b)
       ELSE Unsupported("mq")

\* _simulate_db_component, lines 400-577.  A transaction runs its queries
\* between begin_transaction and commit_transaction (lines 470-499).
simulate_db_component(config, b) ==
    LET operation_type == ConfigGet(config, "query")
        c == [config EXCEPT !.operation = operation_type]
    IN IF ~b.connect THEN ConnectFailed("db")
       ELSE IF operation_type = "query"
       THEN Operate("db", <<"execute_query">>, FALSE, "", c, b)
       ELSE IF operation_type = "update"
       THEN Operate("db", <<"execute_update">>, FALSE, "", c, b)
       ELSE IF operation_type = "batch"
       THEN Operate("db", <<"execute_batch">>, FALSE, "", c, b)
       ELSE IF operation_type = "script"
       THEN Operate("db", <<"execute_script">>, TRUE, "", c, b)
       ELSE IF operation_type = "transaction"
       THEN Operate("db", <<"begin_transaction", "execute_update",
                            "commit_transaction">>, FALSE, "", c, b)
       ELSE IF operation_type = "export_to_kafka"
       THEN Operate("db", <<"export_query_to_kafka">>, FALSE, "kafka", c, b)
       ELSE IF operation_type = "export_to_mq"
       THEN Operate("db", <<"export_query_to_mq">>, FALSE, "mq", c, b)
       ELSE Unsupported("db")

\* requests.get/post/...(url) followed by raise_for_status(), lines 587-634
\* (and 665-772 for the two API kinds): no connector is involved.
Request(config, b) ==
    IF ~config.required THEN Raised(<<>>, {}, {}, <<>>)
    ELSE IF b.operation
    THEN Returned(<<Call("requests", "request")>>, {}, <<"request", "response">>)
    ELSE Raised(<<Call("requests", "request")>>, {Call("requests", "request")},
                {}, <<"request">>)

\* _simulate_service_component, lines 579-649: 'grpc' and 'soap' log that
\* they are not implemented and return.
simulate_service_component(config, b) ==
    LET service_type == ConfigGet(config, "http")
    IN IF service_type = "http" THEN Request(config, b)
       ELSE IF service_type \in {"grpc", "soap"}
       THEN Returned(<<>>, {}, <<"not implemented">>)
       ELSE Raised(<<>>, {}, {}, <<>>)

\* _simulate_api_component, lines 651-779.
simulate_api_component(config, b) ==
    LET api_type == ConfigGet(config, "rest")
    IN IF api_type \in {"rest", "graphql"} THEN Request(config, b)
       ELSE Raised(<<>>, {}, {}, <<>>)

\* _execute_component lines 100-113: the dispatch on component_type; no
\* branch is taken for any other type.
simulate_component(component, b) ==
    IF component.component_type = "kafka"
    THEN simulate_kafka_component(component.config, b)
    ELSE IF component.component_type = "mq"
    THEN simulate_mq_component(component.config, b)
    ELSE IF component.component_type = "db"
    THEN simulate_db_component(component.config, b)
    ELSE IF component.component_type = "service"
    THEN simulate_service_component(component.config, b)
    ELSE IF component.component_type = "api"
    THEN simulate_api_component(component.config, b)
    ELSE Returned(<<>>, {}, <<>>)

\* SubWorkflowExecutor lines 169-178 and 238-262: the same dispatch onto
\* methods that sleep and log.
simulate_stub(component) ==
    IF component.component_type \in COMPONENT_TYPES
    THEN Returned(<<>>, {}, <<"simulating">>)
    ELSE Returned(<<>>, {}, <<>>)

\* The dispatched operation can raise.  WorkflowExecutor._simulate_* (lines
\* 215-779) drive the connectors and raise on every failure;
\* SubWorkflowExecutor._simulate_* (lines 238-262) only sleep and log, so an
\* attempt of a Sub Run always returns.
CanRaise(e) == e.kind # "sub"

\* One attempt of the executor's current component, made by the current
\* handler, and how the dispatched operation ended.
Dispatch(e, outcome, r) ==
    [request |-> requests, kind |-> e.kind, id |-> e.id,
     component |-> e.cs.component, outcome |-> outcome,
     calls |-> r.calls, failed |-> r.failed, open |-> r.open]

\* What the operation dispatched for the executor's current component does
\* under backend behaviour b.
Operation(e, b) ==
    IF CanRaise(e) THEN simulate_component(NextComponent(e), b)
    ELSE simulate_stub(NextComponent(e))

\* The entries the operation logged, in the executor's copy of the record.
LogOperation(e, r) ==
    [e.execution EXCEPT !.execution_log =
        @ \o [k \in 1..Len(r.log) |-> LogEntry(r.log[k], e.cs.component, 0)]]

\* Lines 100-119: the dispatched operation returns; the loop ends.
AttemptSucceeds ==
    /\ ex.pc = "attempt"
    /\ ShouldRetry(ex.current_retry, ex.max_retries)
    /\ \E b \in Backends :
          LET r == Operation(ex, b)
          IN /\ ~r.raised
             /\ dispatches' = Append(dispatches, Dispatch(ex, "ok", r))
             /\ CloseWindow(ex, [ex.cs EXCEPT !.status = "completed"],
                            LogAppend(LogOperation(ex, r),
                                      LogEntry("succeeded", ex.cs.component, 0)))
    /\ clock' = clock + 1
    /\ UNCHANGED <<external_systems, parked, definition_store, requests, sleeps>>

\* Lines 121-135: the operation raises and a retry is left; the failure is
\* logged, the delay recomputed and slept.
AttemptFailsRetry ==
    /\ ex.pc = "attempt"
    /\ ShouldRetry(ex.current_retry, ex.max_retries)
    /\ ShouldRetry(ex.current_retry + 1, ex.max_retries)
    /\ \E b \in Backends :
       LET r == Operation(ex, b)
           delay == NextDelay(ex.cs.component, ex.delay_seconds)
           record == LogAppend(LogOperation(ex, r),
                               LogEntry("retrying", ex.cs.component,
                                        ex.current_retry + 1))
       IN /\ r.raised
          /\ dispatches' = Append(dispatches, Dispatch(ex, "error", r))
          /\ ex' = [ex EXCEPT !.current_retry = @ + 1,
                              !.cs.retry_count = ex.current_retry + 1,
                              !.delay_seconds = delay,
                              !.execution = record]
          /\ PutRun(ex, SaveLog(StoredRun(ex), record))
          /\ sleeps' = Append(sleeps, [request |-> requests,
                                       component |-> ex.cs.component,
                                       seconds |-> delay])
    /\ clock' = clock + 1
    /\ UNCHANGED <<external_systems, parked, definition_store, statuses, requests>>

\* Lines 121-123, 136-147: the operation raises and no retry is left; the
\* component is 'failed' and the run goes on.
AttemptFailsFinal ==
    /\ ex.pc = "attempt"
    /\ ShouldRetry(ex.current_retry, ex.max_retries)
    /\ ~ShouldRetry(ex.current_retry + 1, ex.max_retries)
    /\ ~ValidationRequired(ex)
    /\ \E b \in Backends :
          LET r == Operation(ex, b)
          IN /\ r.raised
             /\ dispatches' = Append(dispatches, Dispatch(ex, "error", r))
             /\ CloseWindow([ex EXCEPT !.current_retry = @ + 1],
                            [ex.cs EXCEPT !.retry_count = ex.current_retry + 1,
                                          !.status = "failed",
                                          !.error_message = "error"],
                            LogAppend(LogOperation(ex, r),
                                      LogEntry("failed", ex.cs.component,
                                               ex.max_retries)))
    /\ clock' = clock + 1
    /\ UNCHANGED <<external_systems, parked, definition_store, requests, sleeps>>

\* Lines 121-123, 136-144: the same under required validation; the raise
\* leaves _execute_component before lines 146-147, so the object's 'failed'
\* is never saved.  execute() catches the exception; the view of a
\* single-component re-execution does not.
AttemptFailsAbort ==
    /\ ex.pc = "attempt"
    /\ ShouldRetry(ex.current_retry, ex.max_retries)
    /\ ~ShouldRetry(ex.current_retry + 1, ex.max_retries)
    /\ ValidationRequired(ex)
    /\ \E b \in Backends :
       LET r == Operation(ex, b)
           record == LogAppend(LogOperation(ex, r),
                               LogEntry("failed", ex.cs.component, ex.max_retries))
       IN /\ r.raised
          /\ dispatches' = Append(dispatches, Dispatch(ex, "error", r))
          /\ ex' = [ex EXCEPT !.current_retry = @ + 1,
                              !.cs.retry_count = ex.current_retry + 1,
                              !.cs.status = "failed",
                              !.cs.error_message = "error",
                              !.execution = record,
                              !.pc = IF ex.kind = "single" THEN "done" ELSE "except"]
          /\ PutRun(ex, SaveLog(StoredRun(ex), record))
    /\ clock' = clock + 1
    /\ UNCHANGED <<external_systems, parked, definition_store, statuses, requests, sleeps>>

----------------------------------------------------------------------------
\* The end of a run.

\* The rows of the selected components are taken from every run.
CheckedRowsOfAnyRun(e, tbl) ==
    {pk \in 1..Len(tbl) :
        \E k \in 1..Len(e.components) : e.components[k].id = tbl[pk].component}

\* _check_all_components_completed: the rows the executor looks at.
\* WorkflowExecutor lines 149-152; SubWorkflowExecutor lines 214-226.
CheckedRows(e, tbl) ==
    IF e.kind = "sub"
    THEN IF e.parent # Null
         THEN {pk \in 1..Len(tbl) :
                  /\ tbl[pk].workflow_execution = e.parent
                  /\ \E k \in 1..Len(e.components) :
                        e.components[k].id = tbl[pk].component}
         ELSE {pk \in 1..Len(tbl) :
                  \E k \in 1..Len(e.components) :
                      e.components[k].id = tbl[pk].component}
    ELSE {pk \in 1..Len(tbl) : tbl[pk].workflow_execution = e.id}

\* all() is taken to need at least one row.
CheckAllCompletedNeedsRows(e, tbl) ==
    /\ CheckedRows(e, tbl) # {}
    /\ \A pk \in CheckedRows(e, tbl) : tbl[pk].status = "completed"

\* all(status.status == 'completed' for status in statuses): true of no row.
check_all_components_completed(e, tbl) ==
    \A pk \in CheckedRows(e, tbl) : tbl[pk].status = "completed"

\* The status is stored and the completion time is not.
FinalRecordWithoutTimestamp(record, status) ==
    [record EXCEPT !.status = status]

\* execute() lines 64-65 (Sub: 106-107): the final status, set on the
\* executor's copy before, is stored by the save() that follows the stamping
\* of completed_at.
FinalRecord(record, status) ==
    [record EXCEPT !.status = status, !.completed_at = clock]

\* execute() lines 46-56 and 64-67 (Sub: 86-98, 106-109): the loop is over.
FinishRun ==
    /\ ex.pc = "loop"
    /\ ex.i > Len(ex.components)
    /\ LET status == IF check_all_components_completed(ex, statuses)
                     THEN "completed" ELSE "partially_completed"
           record == FinalRecord(LogAppend(ex.execution, LogEntry(status, Null, 0)),
                                 status)
       IN /\ PutRun(ex, record)
          /\ ex' = [ex EXCEPT !.execution = record, !.pc = "done"]
    /\ clock' = clock + 1
    /\ UNCHANGED <<external_systems, parked, definition_store, statuses, requests, dispatches, sleeps>>

\* execute() lines 58-67 (Sub: 100-109): the exception handler.
HandleException ==
    /\ ex.pc = "except"
    /\ LET record == FinalRecord(LogAppend(ex.execution,
                                           LogEntry("run failed", Null, 0)),
                                 "failed")
       IN /\ PutRun(ex, record)
          /\ ex' = [ex EXCEPT !.execution = record, !.pc = "done"]
    /\ clock' = clock + 1
    /\ UNCHANGED <<external_systems, parked, definition_store, statuses, requests, dispatches, sleeps>>

----------------------------------------------------------------------------
\* DBConnector (connectors/db_connector.py): one connection to one database.
\* The database is a table of rows identified by their key; a statement
\* inserts the row of its parameter (a duplicate key raises) or deletes it.

MaxKey == 2
MaxBatch == 2

\* DBConnector.SUPPORTED_TYPES, line 17.
SUPPORTED_TYPES == {"postgresql", "mysql", "oracle", "sqlite", "sqlserver"}

QUERIES == {"insert", "delete"}

\* The connection objects made by _connect_* (lines 94-205): of psycopg2,
\* mysql.connector, cx_Oracle, sqlite3 and pyodbc, only cx_Oracle's has a
\* begin() method.
HasBegin(db_type) == db_type = "oracle"

NoCall == [method |-> "none", query |-> "", queries |-> <<>>,
           params |-> <<>>, before |-> {}, returned |-> 0, raised_at |-> 0,
           began |-> FALSE, raised |-> FALSE]

NoDatabase == [db_type |-> "sqlite", rows |-> {}, call |-> NoCall]

\* cursor.execute(query, params) on the rows the connection sees.
CursorExecute(query, rows, p) ==
    IF query = "insert"
    THEN IF p \in rows
         THEN [raised |-> TRUE, rows |-> rows, rowcount |-> 0]
         ELSE [raised |-> FALSE, rows |-> rows \cup {p}, rowcount |-> 1]
    ELSE [raised |-> FALSE, rows |-> rows \ {p},
          rowcount |-> IF p \in rows THEN 1 ELSE 0]

\* execute_update, lines 273-308: execute, commit and return the row count;
\* roll back and return 0 when the statement raises.
execute_update(db, query, p) ==
    LET s == CursorExecute(query, db.rows, p)
    IN [db EXCEPT !.rows = IF s.raised THEN db.rows ELSE s.rows,
                  !.call = [NoCall EXCEPT
                               !.method = "execute_update", !.query = query,
                               !.params = <<p>>, !.before = db.rows,
                               !.returned = IF s.raised THEN 0 ELSE s.rowcount,
                               !.raised_at = IF s.raised THEN 1 ELSE 0]]

\* execute_batch lines 333-336: the loop over params_list from the k-th
\* parameter set on, stopped by the first statement that raises.
RECURSIVE BatchLoop(_, _, _, _, _)
BatchLoop(query, rows, params_list, k, total_affected) ==
    IF k > Len(params_list)
    THEN [raised_at |-> 0, rows |-> rows, total_affected |-> total_affected]
    ELSE LET s == CursorExecute(query, rows, params_list[k])
         IN IF s.raised
            THEN [raised_at |-> k, rows |-> rows,
                  total_affected |-> total_affected]
            ELSE BatchLoop(query, s.rows, params_list, k + 1,
                           total_affected + s.rowcount)

\* execute_batch, lines 310-347: connection.begin() (line 331), the loop, the
\* commit (339); whatever raises inside the try, the missing begin() included,
\* is answered by rollback() and return 0 (lines 343-347).
execute_batch(db, query, params_list) ==
    LET loop == BatchLoop(query, db.rows, params_list, 1, 0)
        call == [NoCall EXCEPT
                    !.method = "execute_batch", !.query = query,
                    !.params = params_list, !.before = db.rows,
                    !.began = HasBegin(db.db_type)]
    IN IF ~HasBegin(db.db_type)
       THEN [db EXCEPT !.call = call]
       ELSE IF loop.raised_at # 0
            THEN [db EXCEPT !.call = [call EXCEPT !.raised_at = loop.raised_at]]
            ELSE [db EXCEPT !.rows = loop.rows,
                            !.call = [call EXCEPT
                                         !.returned = loop.total_affected]]

\* _simulate_db_component lines 480-489: the loop over the queries of a
\* 'transaction' operation, all of type 'update', from the k-th on. Each is
\* run by execute_update, which commits it or rolls it back and returns.
RECURSIVE TransactionLoop(_, _, _, _)
TransactionLoop(db, queries, params, k) ==
    IF k > Len(queries) THEN db
    ELSE TransactionLoop(execute_update(db, queries[k], params[k]),
                         queries, params, k + 1)

\* _simulate_db_component lines 470-499, operation_type 'transaction':
\* begin_transaction (its result is not read), the loop, commit_transaction.
\* An empty list raises (lines 474-475); the except branch of lines 494-499
\* is entered only if something raises, and no connector method does.
simulate_db_transaction(db, queries, params) ==
    LET call == [NoCall EXCEPT
                    !.method = "transaction", !.queries = queries,
                    !.params = params, !.before = db.rows,
                    !.began = HasBegin(db.db_type) \/ db.db_type = "sqlite"]
    IN IF queries = <<>>
       THEN [db EXCEPT !.call = [call EXCEPT !.began = FALSE, !.raised = TRUE]]
       ELSE [TransactionLoop(db, queries, params, 1) EXCEPT !.call = call]

engine_state == <<definition_store, executions, sub_executions, statuses, ex,
                  parked, clock, requests, dispatches, sleeps>>

ExecuteUpdate(query, p) ==
    /\ database' = execute_update(database, query, p)
    /\ UNCHANGED <<engine_state, broker, yaml_file, queues>>

ExecuteBatch(query, params_list) ==
    /\ database' = execute_batch(database, query, params_list)
    /\ UNCHANGED <<engine_state, broker, yaml_file, queues>>

----------------------------------------------------------------------------
\* KafkaConnector.replay_topic_to_topic (connectors/kafka_connector.py lines
\* 186-248). A source message is known by its offset in the source topic and
\* by whether filter_func accepts it; the target topic is the sequence of the
\* source offsets sent to it.

MaxMessages == 3
MaxPoll == 2
MaxLimit == 2

NoBroker == [source |-> <<>>, target |-> <<>>, flushed |-> 0,
             assigned |-> FALSE, position |-> 0, limit |-> 0, count |-> 0,
             pc |-> "idle", returned |-> 0, raised |-> FALSE]

\* Lines 222-238: the loop over the records of one poll, from the k-th on.
\* fail_at is the record at which transform_func or producer.send raises
\* (0: none does). The result is the state of the replay after the batch.
RECURSIVE ForwardRecords(_, _, _, _)
ForwardRecords(br, records, k, fail_at) ==
    IF k > Len(records)
    THEN [br EXCEPT !.position = br.position + Len(records)]
    ELSE IF ~br.source[records[k]]
         THEN ForwardRecords(br, records, k + 1, fail_at)
         ELSE IF k = fail_at
              THEN [br EXCEPT !.pc = "returned", !.returned = 0,
                              !.raised = TRUE]
              ELSE LET sent == [br EXCEPT !.target = Append(@, records[k]),
                                          !.count = @ + 1]
                   IN IF sent.limit # 0 /\ sent.count >= sent.limit
                      THEN [sent EXCEPT !.flushed = Len(sent.target),
                                        !.pc = "returned",
                                        !.returned = sent.count]
                      ELSE ForwardRecords(sent, records, k + 1, fail_at)

\* Lines 209-216: subscribe, count = 0, seek_to_beginning(). KafkaConsumer
\* assigns partitions during poll(): seek_to_beginning() without arguments
\* raises AssertionError ('No partitions are currently assigned') on a
\* consumer that has none, and lines 245-247 return 0.
ReplayTopicToTopic(limit) ==
    /\ broker.pc = "idle"
    /\ broker' = IF broker.assigned
                 THEN [broker EXCEPT !.position = 0, !.count = 0,
                                     !.limit = limit, !.pc = "poll"]
                 ELSE [broker EXCEPT !.limit = limit, !.pc = "returned",
                                     !.returned = 0, !.raised = TRUE]
    /\ UNCHANGED <<engine_state, database, yaml_file, queues>>

\* Lines 218-243: one poll(timeout_ms=1000, max_records=100) of n records, n
\* being 0 when the timeout expires first or the topic is exhausted. An empty
\* poll ends the loop: flush and return count.
Poll(n, fail_at) ==
    /\ broker.pc = "poll"
    /\ n <= Len(broker.source) - broker.position
    /\ fail_at <= n
    /\ broker' = IF n = 0
                 THEN [broker EXCEPT !.flushed = Len(broker.target),
                                     !.pc = "returned",
                                     !.returned = broker.count]
                 ELSE ForwardRecords(broker,
                                     [k \in 1..n |-> broker.position + k],
                                     1, fail_at)
    /\ UNCHANGED <<engine_state, database, yaml_file, queues>>

----------------------------------------------------------------------------
\* The YAML export and upload of a workflow definition
\* (services/yaml_generator.py, views.download_yaml and views.upload_yaml).

NoYaml == [components |-> <<>>, downloaded |-> FALSE, uploaded |-> FALSE]

\* str(x) of an integer key.
Str(x) == <<"str", x>>

\* _generate_components_yaml lines 44-59: the retry strategies of a component;
\* backoff_factor is exported for an exponential strategy only.
StrategiesYaml(component) ==
    LET strategy == retry_strategies[component.id]
    IN IF strategy.strategy_type = "none" THEN <<>>
       ELSE <<[type |-> strategy.strategy_type,
               max_retries |-> strategy.max_retries,
               initial_delay_seconds |-> strategy.initial_delay_seconds,
               backoff_factor |-> IF strategy.strategy_type = "exponential"
                                  THEN strategy.backoff_factor ELSE Null]>>

\* _generate_components_yaml, lines 30-63: the components in 'order' order,
\* each with its id as a string, its type under the key 'type', its order and
\* its config. yaml.dump followed by yaml.safe_load gives these mappings of
\* strings, integers and JSON values back as they are.
generate_components_yaml(components) ==
    [k \in 1..Len(components) |->
        [id |-> Str(components[k].id),
         type |-> components[k].component_type,
         order |-> components[k].order,
         config |-> components[k].config,
         retry_strategies |-> StrategiesYaml(components[k])]]

\* views.download_yaml, lines 432-451.
DownloadYaml ==
    /\ yaml_file' = [components |-> generate_components_yaml(all_components),
                     downloaded |-> TRUE, uploaded |-> FALSE]
    /\ UNCHANGED <<definition_store, executions, sub_executions, statuses, ex,
                   parked, clock, requests, dispatches, sleeps, database,
                   broker, queues>>

\* views.edit_component, lines 137-171: the form stores a new type and config
\* for component k of the workflow.
EditComponent(k, component_type, config) ==
    /\ k \in 1..Len(all_components)
    /\ all_components' = [all_components EXCEPT
                             ![k].component_type = component_type,
                             ![k].config = config]
    /\ yaml_file' = [yaml_file EXCEPT !.uploaded = FALSE]
    /\ UNCHANGED <<retry_strategies, validation_mode, executions,
                   sub_executions, statuses, ex, parked, clock, requests,
                   dispatches, sleeps, database, broker, queues>>

\* views.upload_yaml, lines 454-479: the document is parsed and the success
\* message shown; nothing is written (the update is a TODO, lines 470-471).
UploadYaml ==
    /\ yaml_file.downloaded
    /\ yaml_file' = [yaml_file EXCEPT !.uploaded = TRUE]
    /\ UNCHANGED <<engine_state, database, broker, queues>>

----------------------------------------------------------------------------
\* MQConnector.replay_queue_to_queue and replay_queue_to_kafka
\* (connectors/mq_connector.py lines 426-548). A message of the source queue
\* is known by its position in the queue at the start and by whether
\* filter_func accepts it. receive_messages takes the messages off the queue
\* (basic_get with auto_ack, line 352).

MaxQueue == 3

\* Lines 451 and 517.
batch_size == 10

REPLAY_METHODS == {"replay_queue_to_queue", "replay_queue_to_kafka"}

NoQueues == [source |-> <<>>, accepts |-> <<>>, target |-> <<>>,
             rejected |-> {}, taken |-> {}, method |-> "", limit |-> 0,
             count |-> 0, pc |-> "idle", returned |-> 0]

\* Lines 459-476 (523-540): the loop over one received batch, from the k-th
\* message on. fail_at is the message for which send_message returns False
\* (0: none); the method returns as soon as the limit is reached.
RECURSIVE ProcessMessages(_, _, _, _)
ProcessMessages(q, messages, k, fail_at) ==
    IF k > Len(messages) THEN q
    ELSE IF ~q.accepts[messages[k]]
         THEN ProcessMessages([q EXCEPT !.rejected = @ \cup {messages[k]}],
                              messages, k + 1, fail_at)
         ELSE IF k = fail_at
              THEN ProcessMessages(q, messages, k + 1, fail_at)
              ELSE LET sent == [q EXCEPT !.target = Append(@, messages[k]),
                                         !.count = @ + 1]
                   IN IF sent.limit # 0 /\ sent.count >= sent.limit
                      THEN [sent EXCEPT !.pc = "returned",
                                        !.returned = sent.count]
                      ELSE ProcessMessages(sent, messages, k + 1, fail_at)

\* Lines 442-451 (504-517): the call, on a connected connector.
ReplayQueue(method, limit) ==
    /\ queues.pc = "idle"
    /\ queues' = [queues EXCEPT !.method = method, !.limit = limit,
                                !.count = 0, !.pc = "receive"]
    /\ UNCHANGED <<engine_state, database, broker, yaml_file>>

\* Lines 452-479 (518-543): one turn of the loop. receive_messages takes up
\* to batch_size messages off the source queue; none ends the replay, which
\* returns count.
ReceiveBatch(fail_at) ==
    /\ queues.pc = "receive"
    /\ LET n == Min(batch_size, Len(queues.source))
           messages == SubSeq(queues.source, 1, n)
           received == [queues EXCEPT
                           !.source = SubSeq(@, n + 1, Len(@)),
                           !.taken = @ \cup Range(messages)]
       IN /\ fail_at <= n
          /\ queues' = IF n = 0
                       THEN [queues EXCEPT !.pc = "returned",
                                           !.returned = queues.count]
                       ELSE ProcessMessages(received, messages, 1, fail_at)
    /\ UNCHANGED <<engine_state, database, broker, yaml_file>>

ExecuteTransaction(queries, params) ==
    /\ Len(queries) = Len(params)
    /\ database' = simulate_db_transaction(database, queries, params)
    /\ UNCHANGED <<engine_state, broker, yaml_file, queues>>

\* The engine's specifications do not look behind the connectors.
Unconnected ==
    /\ database = NoDatabase /\ broker = NoBroker
    /\ yaml_file = NoYaml /\ queues = NoQueues

----------------------------------------------------------------------------
\* The specification of the engine: a workflow of NumComponents components,
\* an empty run store, and at most MaxRuns handlers, one after the other.

Strategy(strategy_type, max_retries, initial_delay_seconds, backoff_factor) ==
    [strategy_type |-> strategy_type, max_retries |-> max_retries,
     initial_delay_seconds |-> initial_delay_seconds,
     backoff_factor |-> backoff_factor]

\* WorkflowComponent.order is a free PositiveIntegerField (models.py line 51):
\* the orders are 1, 2, ... with a gap before the last component.
OrderOf(k) == IF k = NumComponents THEN k + 1 ELSE k

Workflow == [k \in 1..NumComponents |-> HttpService(k, OrderOf(k))]

\* The retry strategies attached to the workflow: none at all, or one
\* exponential strategy with a single retry on the second component.
RetryProfiles ==
    {[c \in 1..NumComponents |-> NoStrategy],
     [c \in 1..NumComponents |->
         IF c = 2 THEN Strategy("exponential", 1, 1, 2) ELSE NoStrategy]}

EmptyStore ==
    /\ executions = <<>>
    /\ sub_executions = <<>>
    /\ statuses = <<>>
    /\ ex = IdleExecutor
    /\ parked = IdleExecutor
    /\ clock = 1
    /\ requests = 0
    /\ dispatches = <<>>
    /\ sleeps = <<>>

Init ==
    /\ all_components = Workflow
    /\ retry_strategies \in RetryProfiles
    /\ validation_mode \in VALIDATION_CHOICES
    /\ EmptyStore
    /\ Unconnected

Step ==
    \/ InitializeComponentStatuses
    \/ SubInitializeComponentStatuses
    \/ BeginComponent
    \/ AttemptSucceeds
    \/ AttemptFailsRetry
    \/ AttemptFailsFinal
    \/ AttemptFailsAbort
    \/ FinishRun
    \/ HandleException

Next ==
    \/ \E validation_enabled \in BOOLEAN : ExecuteWorkflow(validation_enabled)
    \/ \E start \in Range(all_components), end \in Range(all_components),
          inc_start \in BOOLEAN, inc_end \in BOOLEAN,
          validation_enabled \in BOOLEAN,
          parent \in {Null} \cup (1..Len(executions)) :
            ExecuteSubWorkflow(start, end, inc_start, inc_end,
                               validation_enabled, parent)
    \/ \E id \in 1..Len(executions), component \in Range(all_components) :
            ExecuteComponent(id, component)
    \/ Step

Spec == Init /\ [][Next]_vars

\* The engine under the scheduling the code has: a handler is synchronous
\* code on the thread that serves the request, every statement of it is
\* followed by the next one, and every connector call and every sleep
\* returns. Requests themselves may stop coming.
SpecLive == Init /\ [][Next]_vars /\ WF_vars(Step)

----------------------------------------------------------------------------
\* The retry loop on its own: a workflow of one component whose strategy is
\* drawn from every kind, max_retries, initial delay and (integer) backoff
\* factor within the bounds, executed by one Full Run.

AllStrategies ==
    {NoStrategy} \cup
    {Strategy(t, m, d, f) : t \in STRATEGY_TYPES, m \in 0..MaxRetries,
                            d \in 0..MaxDelay, f \in 1..MaxFactor}

InitRetry ==
    /\ all_components = <<HttpService(1, 1)>>
    /\ \E s \in AllStrategies :
          retry_strategies = [c \in 1..NumComponents |->
                                 IF c = 1 THEN s ELSE NoStrategy]
    /\ validation_mode \in VALIDATION_CHOICES
    /\ EmptyStore
    /\ Unconnected

RetryRun ==
    /\ requests = 0
    /\ \E validation_enabled \in BOOLEAN : ExecuteWorkflow(validation_enabled)

NextRetry ==
    \/ RetryRun
    \/ InitializeComponentStatuses
    \/ BeginComponent
    \/ AttemptSucceeds
    \/ AttemptFailsRetry
    \/ AttemptFailsFinal
    \/ AttemptFailsAbort
    \/ FinishRun
    \/ HandleException

SpecRetry == InitRetry /\ [][NextRetry]_vars

----------------------------------------------------------------------------
\* The component operations on their own: a workflow of one component of
\* every type, with every operation the executor has a branch for, no
\* operation key at all, and one it does not know; with and without the
\* required keys; with and without a retry; executed by one Full Run against
\* every backend behaviour.  (component_type is validated against
\* COMPONENT_TYPES by WorkflowComponentForm; config is free JSON.)

OperationsOf(component_type) ==
    CASE component_type = "kafka" -> {"produce", "consume", "replay"}
      [] component_type = "mq" -> {"send", "receive", "replay_queue_to_queue",
                                   "replay_queue_to_kafka"}
      [] component_type = "db" -> {"query", "update", "batch", "script",
                                   "transaction", "export_to_kafka", "export_to_mq"}
      [] component_type = "service" -> {"http", "grpc", "soap"}
      [] component_type = "api" -> {"rest", "graphql"}

InitConnector ==
    /\ \E t \in COMPONENT_TYPES :
          \E operation \in OperationsOf(t) \cup {"", "other"}, required \in BOOLEAN :
             all_components = <<Component(1, 1, t, Config(operation, required))>>
    /\ \E s \in {NoStrategy, Strategy("fixed", 1, 0, 1)} :
          retry_strategies = [c \in 1..NumComponents |->
                                 IF c = 1 THEN s ELSE NoStrategy]
    /\ validation_mode \in VALIDATION_CHOICES
    /\ EmptyStore
    /\ Unconnected

SpecConnector == InitConnector /\ [][NextRetry]_vars

----------------------------------------------------------------------------
\* The Range Selector on its own: every ascending list of NumComponents
\* components with orders up to MaxOrder (equal orders and gaps included), and
\* the construction of a SubWorkflowExecutor for every window on it.

AscendingOrders ==
    {o \in [1..NumComponents -> 0..MaxOrder] :
        \A i \in 1..NumComponents, j \in 1..NumComponents : i < j => o[i] <= o[j]}

InitRange ==
    /\ \E o \in AscendingOrders :
          all_components = [k \in 1..NumComponents |-> HttpService(k, o[k])]
    /\ retry_strategies = [c \in 1..NumComponents |-> NoStrategy]
    /\ validation_mode = "optional"
    /\ EmptyStore
    /\ Unconnected

SelectRange ==
    /\ requests = 0
    /\ \E start \in Range(all_components), end \in Range(all_components),
          inc_start \in BOOLEAN, inc_end \in BOOLEAN :
            ExecuteSubWorkflow(start, end, inc_start, inc_end, TRUE, Null)

NextRange == SelectRange

SpecRange == InitRange /\ [][NextRange]_vars

----------------------------------------------------------------------------
\* The database connector on its own: a connected DBConnector of every
\* supported type on an empty table, and any sequence of single updates and
\* batches of up to MaxBatch parameter sets over the keys 1..MaxKey.

Batches == UNION {[1..n -> 1..MaxKey] : n \in 0..MaxBatch}

NoWorkflow ==
    /\ all_components = <<>>
    /\ retry_strategies = [c \in 1..NumComponents |-> NoStrategy]
    /\ validation_mode = "optional"
    /\ EmptyStore

InitBatch ==
    /\ NoWorkflow
    /\ broker = NoBroker
    /\ yaml_file = NoYaml
    /\ queues = NoQueues
    /\ \E t \in SUPPORTED_TYPES : database = [NoDatabase EXCEPT !.db_type = t]

Transactions == UNION {[1..n -> QUERIES] : n \in 0..MaxBatch}

NextBatch ==
    \/ \E query \in QUERIES, p \in 1..MaxKey : ExecuteUpdate(query, p)
    \/ \E query \in QUERIES, params_list \in Batches :
          ExecuteBatch(query, params_list)
    \/ \E queries \in Transactions, params \in Batches :
          ExecuteTransaction(queries, params)

SpecBatch == InitBatch /\ [][NextBatch]_vars

----------------------------------------------------------------------------
\* One replay on its own: a connected KafkaConnector whose consumer is new or
\* has polled before, a source topic of up to MaxMessages messages each
\* accepted or not by the filter, an empty target topic, any limit (0 stands
\* for None) and any sequence of polls.

Topics == UNION {[1..n -> BOOLEAN] : n \in 0..MaxMessages}

InitReplay ==
    /\ NoWorkflow
    /\ database = NoDatabase
    /\ yaml_file = NoYaml
    /\ queues = NoQueues
    /\ \E source \in Topics, assigned \in BOOLEAN :
          broker = [NoBroker EXCEPT !.source = source, !.assigned = assigned]

NextReplay ==
    \/ \E limit \in 0..MaxLimit : ReplayTopicToTopic(limit)
    \/ \E n \in 0..MaxPoll, fail_at \in 0..MaxPoll : Poll(n, fail_at)

SpecReplay == InitReplay /\ [][NextReplay]_vars

----------------------------------------------------------------------------
\* One queue replay on its own: a connected MQConnector, a source queue of up
\* to MaxQueue messages each accepted or not by the filter, an empty target,
\* either method and any limit (0 stands for None).

InitQueueReplay ==
    /\ NoWorkflow
    /\ database = NoDatabase /\ broker = NoBroker /\ yaml_file = NoYaml
    /\ \E accepts \in UNION {[1..n -> BOOLEAN] : n \in 0..MaxQueue} :
          queues = [NoQueues EXCEPT
                       !.source = [k \in 1..Len(accepts) |-> k],
                       !.accepts = accepts]

NextQueueReplay ==
    \/ \E method \in REPLAY_METHODS, limit \in 0..MaxLimit :
          ReplayQueue(method, limit)
    \/ \E fail_at \in 0..MaxQueue : ReceiveBatch(fail_at)

SpecQueueReplay == InitQueueReplay /\ [][NextQueueReplay]_vars

----------------------------------------------------------------------------
\* Export and upload on their own: a workflow of two components, the second
\* with an exponential retry strategy, edited, downloaded and uploaded in any
\* order.

InitYaml ==
    /\ all_components = <<Component(1, 1, "kafka", Config("consume", TRUE)),
                          Component(2, 3, "db", Config("query", TRUE))>>
    /\ retry_strategies = [c \in 1..NumComponents |->
                              IF c = 2 THEN Strategy("exponential", 1, 1, 2)
                              ELSE NoStrategy]
    /\ validation_mode = "optional"
    /\ EmptyStore
    /\ Unconnected

NextYaml ==
    \/ DownloadYaml
    \/ \E k \in 1..2, component_type \in COMPONENT_TYPES, required \in BOOLEAN :
          EditComponent(k, component_type, Config("", required))
    \/ UploadYaml

SpecYaml == InitYaml /\ [][NextYaml]_vars

----------------------------------------------------------------------------
\* Requests served at the same time. Every view runs on the thread of its
\* request and builds its own executor (views.py lines 346, 425, 519); the
\* statements of two requests interleave, and each save() is committed as it
\* is made. `ex` is the executor of the thread that runs now and `parked` the
\* executor of the other thread.

\* The scheduler takes the processor from one request thread and gives it to
\* the other.
Preempt ==
    /\ ex # parked
    /\ ex' = parked
    /\ parked' = ex
    /\ UNCHANGED <<external_systems, definition_store, executions, sub_executions,
                   statuses, clock, requests, dispatches, sleeps>>

\* The run store after one Full Run of the first n components of the
\* workflow in which every request failed and validation did not abort: the
\* record of WorkflowExecutor.execute() and the rows of its windows, as the
\* actions above leave them (timestamps 1 .. 2n + 3).
PastEntry(ts, event, component) ==
    [ts |-> ts, event |-> event, component |-> component, n |-> 0]

RECURSIVE PastWindows(_, _)
PastWindows(k, n) ==
    IF k > n THEN <<>>
    ELSE <<PastEntry(2 * k + 1, "executing", k), PastEntry(2 * k + 2, "request", k),
           PastEntry(2 * k + 2, "error", k), PastEntry(2 * k + 2, "failed", k)>>
         \o PastWindows(k + 1, n)

PastRun(n) ==
    [status |-> "partially_completed", started_at |-> 1,
     completed_at |-> 2 * n + 3, validation_enabled |-> TRUE,
     execution_log |-> <<PastEntry(1, "start", Null)>> \o PastWindows(1, n)
                       \o <<PastEntry(2 * n + 3, "partially_completed", Null)>>]

PastRows(n) ==
    [k \in 1..n |->
        [workflow_execution |-> 1, component |-> k, status |-> "failed",
         started_at |-> 2 * k + 1, completed_at |-> 2 * k + 2,
         retry_count |-> 1, error_message |-> "error"]]

\* A Full Run of n components is over and no request is being served.
AfterFullRun(n) ==
    /\ executions = <<PastRun(n)>>
    /\ statuses = PastRows(n)
    /\ clock = 2 * n + 4
    /\ sub_executions = <<>>
    /\ ex = IdleExecutor
    /\ parked = IdleExecutor
    /\ requests = 0
    /\ dispatches = <<>>
    /\ sleeps = <<>>

\* Two re-executions of single components of one Full Run that ended
\* 'partially_completed' (views.execute_component), served at the same time.
\* The strategies and the validation mode may have been edited since the run.
InitReexecute ==
    /\ all_components = Workflow
    /\ retry_strategies \in RetryProfiles
    /\ validation_mode \in VALIDATION_CHOICES
    /\ AfterFullRun(NumComponents)
    /\ Unconnected

NextReexecute ==
    \/ \E id \in 1..Len(executions), component \in Range(all_components) :
            ExecuteComponent(id, component)
    \/ AttemptSucceeds
    \/ AttemptFailsRetry
    \/ AttemptFailsFinal
    \/ AttemptFailsAbort
    \/ Preempt

SpecReexecute == InitReexecute /\ [][NextReexecute]_vars

\* SubWorkflowExecutor._initialize_component_statuses with a parent, lines
\* 114-134, statement by statement: between the get() of a component's row
\* and the save() or create() that follows it another request may be served.
\* ex.i counts the components the loop has come to.

\* The loop goes to its next component, or is over and execute() goes on to
\* its own loop (line 77).
SubInitNext(e) ==
    IF e.i < Len(e.components)
    THEN [e EXCEPT !.pc = "init", !.i = e.i + 1, !.cs = NoStatus]
    ELSE [e EXCEPT !.pc = "loop", !.i = 1, !.cs = NoStatus]

\* Lines 116-125: get() of the parent's row; the object is set back to
\* 'pending'.  DoesNotExist leads to the create() of lines 127-134,
\* MultipleObjectsReturned leaves the method.
SubInitGet ==
    /\ ex.pc = "init"
    /\ ex.kind = "sub"
    /\ ex.parent # Null
    /\ IF ex.components = <<>>
       THEN ex' = [ex EXCEPT !.pc = "loop"]
       ELSE LET found == StatusRows(statuses, ex.parent, NextComponent(ex).id)
            IN ex' = IF Cardinality(found) = 1
                     THEN [ex EXCEPT
                              !.pc = "init_save",
                              !.cs = ResetStatus(LoadStatus(statuses,
                                                 CHOOSE pk \in found : TRUE))]
                     ELSE IF found = {}
                     THEN [ex EXCEPT !.pc = "init_create"]
                     ELSE [ex EXCEPT !.pc = "except"]
    /\ clock' = clock + 1
    /\ UNCHANGED <<external_systems, parked, definition_store, executions,
                   sub_executions, statuses, requests, dispatches, sleeps>>

\* Line 126: status.save().
SubInitSave ==
    /\ ex.pc = "init_save"
    /\ statuses' = SaveStatus(statuses, ex.cs)
    /\ ex' = SubInitNext(ex)
    /\ clock' = clock + 1
    /\ UNCHANGED <<external_systems, parked, definition_store, executions,
                   sub_executions, requests, dispatches, sleeps>>

\* Lines 129-134: create() of the row the get() did not find.  No constraint
\* of the table (models.py lines 116-131) keeps a second row of the same
\* run and component out.
SubInitCreate ==
    /\ ex.pc = "init_create"
    /\ statuses' = Append(statuses, NewStatus(ex.parent, NextComponent(ex).id))
    /\ ex' = SubInitNext(ex)
    /\ clock' = clock + 1
    /\ UNCHANGED <<external_systems, parked, definition_store, executions,
                   sub_executions, requests, dispatches, sleeps>>

\* Two Sub Runs of one parent run served at the same time.  The parent is a
\* Full Run made before the last component was added to the workflow
\* (views.add_component), or after.  Both Sub Runs end at the last component
\* and start at it or at the one before, so their ranges overlap.
InitSubRuns ==
    /\ all_components = Workflow
    /\ retry_strategies = [c \in 1..NumComponents |-> NoStrategy]
    /\ validation_mode = "optional"
    /\ \E n \in {NumComponents - 1, NumComponents} : AfterFullRun(n)
    /\ Unconnected

NextSubRuns ==
    \/ \E k \in {NumComponents - 1, NumComponents},
          parent \in 1..Len(executions) :
            ExecuteSubWorkflow(all_components[k], all_components[NumComponents],
                               TRUE, TRUE, FALSE, parent)
    \/ SubInitGet
    \/ SubInitSave
    \/ SubInitCreate
    \/ BeginComponent
    \/ AttemptSucceeds
    \/ FinishRun
    \/ HandleException
    \/ Preempt

SpecSubRuns == InitSubRuns /\ [][NextSubRuns]_vars

----------------------------------------------------------------------------
\* What the properties below read off a state.

IsRun(e) == e.kind \in {"full", "sub"}

Required(e) == e.validation_enabled /\ validation_mode = "required"

\* The attempts handler r made of component c, in the order it made them.
AttemptsOf(r, c) ==
    SelectSeq(dispatches, LAMBDA d : d.request = r /\ d.component = c)

\* Handler r used up the retries of component c: max_retries + 1 of its
\* attempts failed (max_retries is 0 without a strategy).
Exhausted(r, c) ==
    Len(SelectSeq(AttemptsOf(r, c), LAMBDA d : d.outcome = "error"))
        = retry_strategies[c].max_retries + 1

\* The stored status rows of the k-th component the executor selected.
RowsOf(e, k) ==
    {pk \in 1..Len(statuses) :
        /\ statuses[pk].workflow_execution = (IF e.kind = "sub" THEN e.parent ELSE e.id)
        /\ statuses[pk].component = e.components[k].id}

StoredStatus(e) ==
    IF e.kind = "sub" THEN sub_executions[e.id].status ELSE executions[e.id].status

----------------------------------------------------------------------------
\* C1: in a Full or Sub Run with validation_mode 'required' and
\* validation_enabled, once a component has exhausted its retries the run can
\* only end 'failed', and no component after it in execution order is
\* dispatched or has a status record that is not 'pending'.
C1_RequiredFailureAbortsRun ==
    (IsRun(ex) /\ Required(ex)) =>
        \A k \in 1..Len(ex.components) :
            Exhausted(requests, ex.components[k].id) =>
                /\ ex.pc \in {"except", "done"}
                /\ ex.pc = "done" => StoredStatus(ex) = "failed"
                /\ \A j \in (k + 1)..Len(ex.components) :
                      /\ AttemptsOf(requests, ex.components[j].id) = <<>>
                      /\ \A pk \in RowsOf(ex, j) : statuses[pk].status = "pending"

\* A Full Run has ended after its second component used up a retry strategy,
\* with the third component left behind it.  (Only a Full Run gets here: the
\* operations of a Sub Run cannot raise, see CanRaise.)
C1_Witness ==
    /\ ex.kind = "full" /\ Required(ex)
    /\ ex.pc = "done"
    /\ Len(ex.components) >= 3
    /\ retry_strategies[ex.components[2].id].max_retries >= 1
    /\ Exhausted(requests, ex.components[2].id)
    /\ AttemptsOf(requests, ex.components[1].id) # <<>>
    /\ RowsOf(ex, 3) # {}

\* C2: in a run whose validation_mode is not 'required' or whose
\* validation_enabled is false, a component that exhausts its retries does not
\* stop the run: the run never enters the abort path, and when it has ended
\* every selected component has been attempted and the status is
\* 'partially_completed'.
C2_OptionalFailureContinues ==
    (IsRun(ex) /\ ~Required(ex)) =>
        \A k \in 1..Len(ex.components) :
            Exhausted(requests, ex.components[k].id) =>
                /\ ex.pc # "except"
                /\ ex.pc = "done" =>
                      /\ StoredStatus(ex) = "partially_completed"
                      /\ \A j \in 1..Len(ex.components) :
                            AttemptsOf(requests, ex.components[j].id) # <<>>

\* A Full Run with validation enabled on a workflow whose mode is not
\* 'required' has ended after its first component failed and later ones ran.
C2_Witness ==
    /\ ex.kind = "full" /\ ex.validation_enabled /\ validation_mode = "optional"
    /\ ex.pc = "done"
    /\ Exhausted(requests, ex.components[1].id)
    /\ \E j \in 2..Len(ex.components) :
          AttemptsOf(requests, ex.components[j].id) # <<>>

\* The execution window of component c in the current handler is over.
WindowOver(c) ==
    /\ ex.cs.component = c
    /\ ex.pc \in {"loop", "except", "done"}

\* C3: a component is attempted at most max_retries + 1 times in one
\* execution window and never again after a success; when its window is over
\* it has either succeeded on its last attempt or failed max_retries + 1 times
\* (4 times for max_retries = 3, once without a strategy), and in the latter
\* case its status object is 'failed' (and so is the stored row unless the
\* run aborts).
C3_AttemptsPerWindow ==
    \A c \in 1..NumComponents :
        LET a == AttemptsOf(requests, c)
            m == retry_strategies[c].max_retries
        IN /\ Len(a) <= m + 1
           /\ \A k \in 1..(Len(a) - 1) : a[k].outcome = "error"
           /\ WindowOver(c) =>
                 /\ a # <<>>
                 /\ a[Len(a)].outcome = "ok" \/ Len(a) = m + 1
                 /\ a[Len(a)].outcome = "error" =>
                       /\ ex.cs.status = "failed"
                       /\ ~Required(ex) => statuses[ex.cs.pk].status = "failed"
                 /\ a[Len(a)].outcome = "ok" => statuses[ex.cs.pk].status = "completed"

\* A component with max_retries = 3 has failed four times and its window is over.
C3_Witness ==
    /\ retry_strategies[1].max_retries = 3
    /\ WindowOver(1)
    /\ Len(AttemptsOf(requests, 1)) = 4
    /\ AttemptsOf(requests, 1)[4].outcome = "error"

RECURSIVE Pow(_, _)
Pow(b, n) == IF n = 0 THEN 1 ELSE b * Pow(b, n - 1)

\* The waits the current handler performed for component c.
WaitsOf(r, c) == SelectSeq(sleeps, LAMBDA w : w.request = r /\ w.component = c)

\* C4: under an exponential strategy the wait before the k-th retry is
\* initial_delay * backoff_factor^(k-1) (1, 2, 4 seconds for initial_delay 1
\* and factor 2), and there are never more waits than retries.
C4_ExponentialWaits ==
    \A c \in 1..NumComponents :
        retry_strategies[c].strategy_type = "exponential" =>
            LET w == WaitsOf(requests, c)
            IN /\ Len(w) <= retry_strategies[c].max_retries
               /\ Len(w) <= Len(AttemptsOf(requests, c))
               /\ \A k \in 1..Len(w) :
                     w[k].seconds = retry_strategies[c].initial_delay_seconds
                                        * Pow(retry_strategies[c].backoff_factor, k - 1)

TerminalRun(status) == status \in {"completed", "failed", "partially_completed"}

TerminalComponent(status) == status \in {"completed", "failed"}

\* C5 as stated: once a run with a non-empty selection has initialized its
\* status records, its status is terminal if and only if every one of these
\* records is 'completed' or 'failed'.
C5_TerminalIffAllComponentsTerminal ==
    (/\ IsRun(ex) /\ ex.pc # "init"
     /\ ex.components # <<>>
     /\ \A k \in 1..Len(ex.components) : RowsOf(ex, k) # {}) =>
        (TerminalRun(StoredStatus(ex)) <=>
            \A k \in 1..Len(ex.components) :
                \A pk \in RowsOf(ex, k) : TerminalComponent(statuses[pk].status))

\* C5 as amended: when a run has ended 'completed' or 'partially_completed',
\* every selected component has a status record and each of these records is
\* 'completed' or 'failed'.
C5_NormalEndHasTerminalComponents ==
    (IsRun(ex) /\ ex.pc = "done"
        /\ StoredStatus(ex) \in {"completed", "partially_completed"}) =>
        \A k \in 1..Len(ex.components) :
            /\ RowsOf(ex, k) # {}
            /\ \A pk \in RowsOf(ex, k) : TerminalComponent(statuses[pk].status)

\* A Full Run has ended 'partially_completed' with a failed and a completed row.
C5_Witness ==
    /\ ex.kind = "full" /\ ex.pc = "done"
    /\ StoredStatus(ex) = "partially_completed"
    /\ \E j \in 1..Len(ex.components), k \in 1..Len(ex.components) :
          /\ \E pk \in RowsOf(ex, j) : statuses[pk].status = "failed"
          /\ \E pk \in RowsOf(ex, k) : statuses[pk].status = "completed"

\* C6: a run whose loop exited normally is 'completed' if every status record
\* of its own selected components is 'completed' and 'partially_completed'
\* otherwise, whatever the records of other runs say.
C6_FinalStatusFromOwnRecords ==
    (IsRun(ex) /\ ex.pc = "done" /\ StoredStatus(ex) # "failed") =>
        StoredStatus(ex) =
            IF \A k \in 1..Len(ex.components) :
                  \A pk \in RowsOf(ex, k) : statuses[pk].status = "completed"
            THEN "completed" ELSE "partially_completed"

\* A second Full Run has ended 'completed' while a record of the first run
\* is 'failed'.
C6_Witness ==
    /\ ex.kind = "full" /\ ex.id = 2 /\ ex.pc = "done"
    /\ StoredStatus(ex) = "completed"
    /\ \E pk \in 1..Len(statuses) :
          /\ statuses[pk].workflow_execution = 1
          /\ statuses[pk].status = "failed"

----------------------------------------------------------------------------
\* The window of a Sub Run, read off its stored record r: the bounds are the
\* smaller and the larger of the two orders, and each bound is inclusive when
\* the flag given with that endpoint is set.

Low(r) == Min(r.start_component.order, r.end_component.order)

High(r) == Max(r.start_component.order, r.end_component.order)

LowIncluded(r) ==
    IF r.start_component.order <= r.end_component.order
    THEN r.include_start ELSE r.include_end

HighIncluded(r) ==
    IF r.start_component.order <= r.end_component.order
    THEN r.include_end ELSE r.include_start

InWindow(r, c) ==
    /\ IF LowIncluded(r) THEN c.order >= Low(r) ELSE c.order > Low(r)
    /\ IF HighIncluded(r) THEN c.order <= High(r) ELSE c.order < High(r)

WindowIds(r) == {c.id : c \in {x \in Range(all_components) : InWindow(r, x)}}

\* C7: the components a SubWorkflowExecutor selects are exactly those of the
\* ascending list whose order lies within the bounds, in the order of the
\* list, and they form one contiguous slice of it.
C7_RangeIsFilterByBounds ==
    ex.kind = "sub" =>
        /\ ex.components =
              SelectSeq(all_components, LAMBDA c : InWindow(sub_executions[ex.id], c))
        /\ \E a \in 1..(Len(all_components) + 1), b \in 0..Len(all_components) :
              ex.components = SubSeq(all_components, a, b)

\* A reversed window with different flags selects two or more components.
C7_Witness ==
    /\ ex.kind = "sub"
    /\ sub_executions[ex.id].start_component.order
          > sub_executions[ex.id].end_component.order
    /\ sub_executions[ex.id].include_start # sub_executions[ex.id].include_end
    /\ Len(ex.components) >= 2
    /\ Len(ex.components) < Len(all_components)

\* C8: selecting with the endpoints and their flags exchanged gives the same
\* sequence, and a start that comes after the end is exchanged with the end,
\* flags included, before the range is computed.
C8_RangeSymmetricUnderReversal ==
    ex.kind = "sub" =>
        LET r == sub_executions[ex.id]
        IN /\ ex.components =
                 get_components_in_path(all_components, r.end_component,
                                        r.start_component, r.include_end,
                                        r.include_start)
           /\ r.start_component.order > r.end_component.order =>
                 /\ ex.start_component = r.end_component
                 /\ ex.end_component = r.start_component
                 /\ ex.include_start = r.include_end
                 /\ ex.include_end = r.include_start

\* A reversed window that includes its start and not its end: the selection
\* ends with the start component and leaves the end component out.
C8_Witness ==
    /\ ex.kind = "sub"
    /\ sub_executions[ex.id].start_component.order
          > sub_executions[ex.id].end_component.order
    /\ sub_executions[ex.id].include_start
    /\ ~sub_executions[ex.id].include_end
    /\ ex.components # <<>>
    /\ ex.components[Len(ex.components)] = sub_executions[ex.id].start_component
    /\ ex.components[1] # sub_executions[ex.id].end_component

DistinctOrders ==
    \A i \in 1..Len(all_components), j \in 1..Len(all_components) :
        i # j => all_components[i].order # all_components[j].order

\* C9 as stated (on a list without equal orders): the selection is empty only
\* when start and end are the same component and both include flags are false.
C9_EmptyOnlyForOneComponentExcluded ==
    (ex.kind = "sub" /\ ex.components = <<>> /\ DistinctOrders) =>
        /\ sub_executions[ex.id].start_component = sub_executions[ex.id].end_component
        /\ ~sub_executions[ex.id].include_start
        /\ ~sub_executions[ex.id].include_end

\* C9 as amended: the selection is empty only when start and end have the
\* same order and an include flag is false, or when both flags are false and
\* no component's order lies strictly between the two orders.
C9_EmptyOnlyWithoutComponentInBounds ==
    (ex.kind = "sub" /\ ex.components = <<>>) =>
        LET r == sub_executions[ex.id]
        IN \/ /\ r.start_component.order = r.end_component.order
              /\ ~(r.include_start /\ r.include_end)
           \/ /\ ~r.include_start /\ ~r.include_end
              /\ \A c \in Range(all_components) :
                    ~(Low(r) < c.order /\ c.order < High(r))

\* Two components of different order, both excluded, with nothing between.
C9_Witness ==
    /\ ex.kind = "sub" /\ ex.components = <<>>
    /\ sub_executions[ex.id].start_component.order
          < sub_executions[ex.id].end_component.order
    /\ ~sub_executions[ex.id].include_start
    /\ ~sub_executions[ex.id].include_end

\* C10: every step of a Sub Run with a parent dispatches only components of
\* its window, creates status rows only for them, and leaves every status row
\* of the parent for a component outside the window as it was (status,
\* timestamps, retry_count, error_message).
C10_SubRunTouchesOnlyItsWindow ==
    [][(ex'.kind = "sub" /\ ex'.parent # Null) =>
          LET window == WindowIds(sub_executions'[ex'.id])
          IN /\ Len(statuses') >= Len(statuses)
             /\ \A pk \in 1..Len(statuses) :
                   (/\ statuses[pk].workflow_execution = ex'.parent
                    /\ statuses[pk].component \notin window)
                       => statuses'[pk] = statuses[pk]
             /\ \A pk \in (Len(statuses) + 1)..Len(statuses') :
                   statuses'[pk].component \in window
             /\ \A k \in (Len(dispatches) + 1)..Len(dispatches') :
                   dispatches'[k].component \in window]_vars

\* A Sub Run from the component of order 2 (included) to the component of
\* order 4 (excluded) has ended on a parent that had run every component; it
\* attempted the component of order 2 and nothing else, and the parent's rows
\* of the other components are not 'pending'.
C10_Witness ==
    /\ ex.kind = "sub" /\ ex.parent # Null /\ ex.pc = "done"
    /\ sub_executions[ex.id].start_component.order = 2
    /\ sub_executions[ex.id].end_component.order = 4
    /\ sub_executions[ex.id].include_start
    /\ ~sub_executions[ex.id].include_end
    /\ \A c \in Range(all_components) :
          (AttemptsOf(requests, c.id) # <<>>) <=> (c.order >= 2 /\ c.order < 4)
    /\ \A pk \in 1..Len(statuses) :
          (statuses[pk].workflow_execution = ex.parent
              /\ statuses[pk].component \notin WindowIds(sub_executions[ex.id]))
                 => /\ TerminalComponent(statuses[pk].status)
                    /\ statuses[pk].completed_at # Null

----------------------------------------------------------------------------
\* The status rows of run `workflow_execution` for component c in table tbl.
RecordsOf(tbl, workflow_execution, c) ==
    {pk \in 1..Len(tbl) : /\ tbl[pk].workflow_execution = workflow_execution
                          /\ tbl[pk].component = c}

\* C11: after every step no (run, component) pair has two status rows; the
\* initialization of a Sub Run with a parent leaves each selected component
\* with the row the parent already had, now 'pending' with started_at and
\* completed_at cleared, retry_count 0 and error_message empty, and adds a row
\* only for a selected component the parent had none for.
C11_OneRecordPerRunAndComponent ==
    [][/\ \A id \in 1..Len(executions'), c \in 1..NumComponents :
             Cardinality(RecordsOf(statuses', id, c)) <= 1
       /\ (ex.kind = "sub" /\ ex.parent # Null /\ ex.pc = "init") =>
             /\ \A k \in 1..Len(ex.components) :
                   LET c == ex.components[k].id
                       before == RecordsOf(statuses, ex.parent, c)
                       after == RecordsOf(statuses', ex.parent, c)
                   IN /\ Cardinality(after) = 1
                      /\ before # {} => after = before
                      /\ \A pk \in after :
                            /\ statuses'[pk].status = "pending"
                            /\ statuses'[pk].started_at = Null
                            /\ statuses'[pk].completed_at = Null
                            /\ statuses'[pk].retry_count = 0
                            /\ statuses'[pk].error_message = ""
             /\ Len(statuses') - Len(statuses) =
                   Cardinality({k \in 1..Len(ex.components) :
                       RecordsOf(statuses, ex.parent, ex.components[k].id) = {}})]_vars

\* A Sub Run has initialized on a parent whose selected component had failed:
\* the row is 'pending' again with its columns cleared, and the table still
\* holds one row per component of the parent.
C11_Witness ==
    /\ ex.kind = "sub" /\ ex.parent # Null /\ ex.pc = "loop" /\ ex.i = 1
    /\ ex.components # <<>>
    /\ \E d \in Range(dispatches) :
          /\ d.kind = "full" /\ d.id = ex.parent /\ d.outcome = "error"
          /\ d.component = ex.components[1].id
    /\ \A pk \in RecordsOf(statuses, ex.parent, ex.components[1].id) :
          statuses[pk].status = "pending" /\ statuses[pk].error_message = ""
    /\ Len(statuses) = NumComponents

----------------------------------------------------------------------------
ComponentOrder(c) == (CHOOSE x \in Range(all_components) : x.id = c).order

\* C12: the attempts of a run follow the ascending `order` of its selected
\* components: no attempt of a component comes after an attempt of a
\* component with a larger order, and when a component has been attempted
\* every selected component before it has been attempted and its row is
\* 'completed' or 'failed' with completed_at set.  (The executors never read
\* a WorkflowConnection.)
C12_SequentialAscendingOrder ==
    IsRun(ex) =>
        /\ \A a \in 1..Len(dispatches), b \in 1..Len(dispatches) :
              (/\ a < b
               /\ dispatches[a].request = requests
               /\ dispatches[b].request = requests)
                  => ComponentOrder(dispatches[a].component)
                        <= ComponentOrder(dispatches[b].component)
        /\ \A k \in 1..Len(ex.components) :
              AttemptsOf(requests, ex.components[k].id) # <<>> =>
                 \A j \in 1..(k - 1) :
                    /\ ex.components[j].order < ex.components[k].order
                    /\ AttemptsOf(requests, ex.components[j].id) # <<>>
                    /\ \A pk \in RowsOf(ex, j) :
                          /\ TerminalComponent(statuses[pk].status)
                          /\ statuses[pk].completed_at # Null

\* A Full Run attempts its last component after the second one failed twice
\* and the first one completed.
C12_Witness ==
    /\ ex.kind = "full" /\ Len(ex.components) = NumComponents
    /\ Len(AttemptsOf(requests, ex.components[2].id)) = 2
    /\ AttemptsOf(requests, ex.components[2].id)[2].outcome = "error"
    /\ AttemptsOf(requests, ex.components[1].id) # <<>>
    /\ AttemptsOf(requests, ex.components[NumComponents].id) # <<>>

----------------------------------------------------------------------------
\* The properties of the component operations, read off the attempts of the
\* one component of SpecConnector.

TheComponent == all_components[1]

\* The operation the component's config selects, with the default of its type.
EffectiveOperation(component) ==
    IF component.config.operation # "" THEN component.config.operation
    ELSE CASE component.component_type = "kafka" -> "consume"
           [] component.component_type = "mq" -> "receive"
           [] component.component_type = "db" -> "query"
           [] component.component_type = "service" -> "http"
           [] component.component_type = "api" -> "rest"
           [] OTHER -> ""

Completed(c) ==
    \E pk \in 1..Len(statuses) :
        statuses[pk].component = c /\ statuses[pk].status = "completed"

\* C13: an attempt in which a connector operation failed (connect, consume,
\* receive, replay, query, update, batch, export, ...) is a failed attempt.
C13_FailedOperationFailsAttempt ==
    \A k \in 1..Len(dispatches) :
        dispatches[k].failed # {} => dispatches[k].outcome = "error"

\* C14: a service component of service_type 'grpc' or 'soap' fails every
\* attempt and never has a 'completed' status.
C14_GrpcSoapNeverCompleted ==
    (/\ TheComponent.component_type = "service"
     /\ TheComponent.config.operation \in {"grpc", "soap"}) =>
        /\ \A k \in 1..Len(dispatches) : dispatches[k].outcome = "error"
        /\ ~Completed(TheComponent.id)

\* The executor has a branch that carries out the component's operation.
Implemented(component) ==
    /\ component.component_type \in COMPONENT_TYPES
    /\ EffectiveOperation(component) \in
          {"produce", "consume", "replay", "send", "receive",
           "replay_queue_to_queue", "replay_queue_to_kafka", "query", "update",
           "batch", "script", "transaction", "export_to_kafka", "export_to_mq",
           "http", "rest", "graphql"}
    /\ EffectiveOperation(component) \in OperationsOf(component.component_type)

\* C15: a component whose type or whose operation_type / service_type /
\* api_type the executor does not implement fails every attempt and never
\* has a 'completed' status.
C15_UnimplementedNeverCompleted ==
    \A c \in Range(all_components) :
        ~Implemented(c) =>
            /\ \A k \in 1..Len(dispatches) :
                  dispatches[k].component = c.id => dispatches[k].outcome = "error"
            /\ ~Completed(c.id)

\* The operations whose required key the claim names.
NeedsKey(component) ==
    \/ /\ component.component_type = "kafka"
       /\ EffectiveOperation(component) \in {"produce", "consume", "replay"}
    \/ /\ component.component_type = "mq"
       /\ EffectiveOperation(component) \in
             {"send", "receive", "replay_queue_to_queue", "replay_queue_to_kafka"}
    \/ /\ component.component_type = "db"
       /\ EffectiveOperation(component) \in {"query", "update", "batch"}
    \/ /\ component.component_type = "service"
       /\ EffectiveOperation(component) = "http"

\* C16: for these operations a component without the required key fails
\* every attempt, calls nothing on a connector or backend but connect(), and
\* never has a 'completed' status.
C16_MissingKeyFailsWithoutCall ==
    \A c \in Range(all_components) :
        (NeedsKey(c) /\ ~c.config.required) =>
            /\ \A k \in 1..Len(dispatches) :
                  dispatches[k].component = c.id =>
                     /\ dispatches[k].outcome = "error"
                     /\ \A j \in 1..Len(dispatches[k].calls) :
                           dispatches[k].calls[j].method = "connect"
            /\ ~Completed(c.id)

\* A Kafka producer without a topic has connected, failed twice and is 'failed'.
C16_Witness ==
    /\ TheComponent.component_type = "kafka"
    /\ TheComponent.config = Config("produce", FALSE)
    /\ Len(dispatches) = 2
    /\ dispatches[2].calls = <<Call("kafka", "connect")>>
    /\ WindowOver(1)
    /\ ex.cs.status = "failed"

\* C17: at the end of every attempt no connector that was connected during
\* the attempt is still connected.
C17_ConnectorsClosedAfterAttempt ==
    \A k \in 1..Len(dispatches) : dispatches[k].open = {}

----------------------------------------------------------------------------
IsPrefix(s, t) == Len(s) <= Len(t) /\ SubSeq(t, 1, Len(s)) = s

\* The entries a step appended to stored log `old`, giving `new`.
Appended(old, new) == SubSeq(new, Len(old) + 1, Len(new))

\* C18: every step leaves each stored execution log an extension of what it
\* was, with timestamps that never decrease along the log; a step in which an
\* attempt failed appends, with the time of the step, the entry of the retry
\* or of the terminal failure of that component, and the step that aborts a
\* run appends the entry of the abort.
C18_LogOnlyGrowsAndRecordsFailures ==
    [][/\ \A id \in 1..Len(executions) :
             IsPrefix(executions[id].execution_log, executions'[id].execution_log)
       /\ \A id \in 1..Len(sub_executions) :
             IsPrefix(sub_executions[id].execution_log,
                      sub_executions'[id].execution_log)
       /\ \A id \in 1..Len(executions') :
             \A j \in 1..Len(executions'[id].execution_log),
                k \in 1..Len(executions'[id].execution_log) :
                   j <= k => executions'[id].execution_log[j].ts
                                <= executions'[id].execution_log[k].ts
       /\ (/\ Len(dispatches') > Len(dispatches)
           /\ dispatches'[Len(dispatches')].outcome = "error") =>
             LET d == dispatches'[Len(dispatches')]
                 new == Appended(executions[d.id].execution_log,
                                 executions'[d.id].execution_log)
             IN /\ \E k \in 1..Len(new) :
                      /\ new[k].event \in {"retrying", "failed"}
                      /\ new[k].component = d.component
                /\ \A k \in 1..Len(new) : new[k].ts = clock
       /\ (ex.pc = "except" /\ ex'.pc = "done") =>
             LET old == IF ex.kind = "sub" THEN sub_executions[ex.id].execution_log
                        ELSE executions[ex.id].execution_log
                 new == IF ex.kind = "sub" THEN sub_executions'[ex.id].execution_log
                        ELSE executions'[ex.id].execution_log
             IN /\ Len(new) > Len(old)
                /\ new[Len(new)].event = "run failed"
                /\ new[Len(new)].ts = clock]_vars

\* The events of a stored log, in order.
Events(log) == [k \in 1..Len(log) |-> log[k].event]

\* The stored log of a Full Run that aborted on its second component after a
\* retry: the start, the first component, then the failed attempt, the retry,
\* the second failed attempt, the terminal failure and the abort.
C18_Witness ==
    /\ ex.kind = "full" /\ ex.pc = "done"
    /\ Events(executions[ex.id].execution_log) =
          <<"start", "executing", "request", "response", "succeeded",
            "executing", "request", "error", "retrying",
            "request", "error", "failed", "run failed">>

----------------------------------------------------------------------------
\* C19: a Sub Run without a parent and with a non-empty selection has, once
\* initialized, exactly one status row per selected component; when it has
\* ended every selected component has been attempted, and it is 'completed'
\* if every attempt succeeded and 'failed' only under required validation.
C19_StandaloneSubRunExecutesSelection ==
    (/\ ex.kind = "sub" /\ ex.parent = Null
     /\ ex.components # <<>>
     /\ ex.pc # "init") =>
        /\ \A k \in 1..Len(ex.components) : Cardinality(RowsOf(ex, k)) = 1
        /\ ex.pc = "done" =>
              /\ \A k \in 1..Len(ex.components) :
                    AttemptsOf(requests, ex.components[k].id) # <<>>
              /\ (\A d \in Range(dispatches) :
                     d.request = requests => d.outcome = "ok")
                    => StoredStatus(ex) = "completed"
              /\ StoredStatus(ex) = "failed" => Required(ex)

----------------------------------------------------------------------------
\* C20: in every step a status row that becomes 'running' was 'pending', a
\* row that becomes 'completed' or 'failed' was 'running', a row that stops
\* being 'completed' or 'failed' becomes 'pending' in the initialization of a
\* run, and a new row is 'pending'.
C20_ComponentStatusStateMachine ==
    [][/\ \A pk \in 1..Len(statuses) :
             statuses'[pk].status # statuses[pk].status =>
                /\ statuses'[pk].status = "running" =>
                      statuses[pk].status = "pending"
                /\ TerminalComponent(statuses'[pk].status) =>
                      statuses[pk].status = "running"
                /\ TerminalComponent(statuses[pk].status) =>
                      /\ statuses'[pk].status = "pending"
                      /\ ex.pc = "init"
       /\ \A pk \in (Len(statuses) + 1)..Len(statuses') :
             statuses'[pk].status = "pending"]_vars

----------------------------------------------------------------------------
\* completed_at of run record r agrees with its status.
StampedWhenTerminal(r) ==
    (r.completed_at = Null) <=> (r.status \in {"pending", "running"})

\* C21: after every step each stored run record, Full or Sub, has
\* completed_at null exactly when its status is 'pending' or 'running'; the
\* step that stores a terminal status is the step that stores completed_at,
\* with the time of that step.
C21_CompletedAtIffTerminal ==
    [][/\ \A id \in 1..Len(executions') : StampedWhenTerminal(executions'[id])
       /\ \A id \in 1..Len(sub_executions') :
             StampedWhenTerminal(sub_executions'[id])
       /\ \A id \in 1..Len(executions) :
             (TerminalRun(executions'[id].status)
                 /\ ~TerminalRun(executions[id].status))
                => executions'[id].completed_at = clock
       /\ \A id \in 1..Len(sub_executions) :
             (TerminalRun(sub_executions'[id].status)
                 /\ ~TerminalRun(sub_executions[id].status))
                => sub_executions'[id].completed_at = clock]_vars

\* A Sub Run is stored 'completed' with its completion time while the Full
\* Run before it is stored 'failed' with an earlier one.
C21_Witness ==
    /\ ex.kind = "sub" /\ ex.pc = "done"
    /\ sub_executions[ex.id].status = "completed"
    /\ Len(executions) = 1 /\ executions[1].status = "failed"
    /\ executions[1].completed_at # Null
    /\ sub_executions[ex.id].completed_at > executions[1].completed_at

----------------------------------------------------------------------------
\* C22: under a 'fixed' or 'custom' strategy every wait of the handler before
\* a retry of the component lasts initial_delay_seconds, whatever the
\* backoff_factor; a component without a strategy is executed with
\* max_retries 0 and delay 0, attempted at most once and never waited for.
C22_FixedWaitsAndNoStrategyDefaults ==
    \A c \in 1..NumComponents :
        LET strategy == retry_strategies[c]
            w == WaitsOf(requests, c)
            current == IsRun(ex) /\ ex.pc \in {"attempt", "except"}
                                 /\ ex.cs.component = c
        IN /\ strategy.strategy_type \in {"fixed", "custom"} =>
                /\ \A k \in 1..Len(w) :
                      w[k].seconds = strategy.initial_delay_seconds
                /\ current => ex.delay_seconds = strategy.initial_delay_seconds
           /\ strategy.strategy_type = "none" =>
                /\ w = <<>>
                /\ Len(AttemptsOf(requests, c)) <= 1
                /\ current => ex.max_retries = 0 /\ ex.delay_seconds = 0

\* A component under a 'custom' strategy with a positive delay and a backoff
\* factor above 1 has been waited for twice.
C22_Witness ==
    /\ retry_strategies[1].strategy_type = "custom"
    /\ retry_strategies[1].initial_delay_seconds >= 1
    /\ retry_strategies[1].backoff_factor >= 2
    /\ Len(WaitsOf(requests, 1)) >= 2

----------------------------------------------------------------------------
\* C23: a run that was started ends: its handler makes at most
\* max_retries + 1 attempts on a component, and from the state where the run
\* is stored 'running' it reaches the end of execute(), where the run is
\* stored with a terminal status and that status is the one returned.
C23_StartedRunTerminates ==
    /\ [](\A c \in 1..NumComponents :
            Len(AttemptsOf(requests, c)) <= retry_strategies[c].max_retries + 1)
    /\ \A r \in 1..MaxRuns :
          (IsRun(ex) /\ requests = r /\ ex.pc = "init")
             ~> (/\ IsRun(ex) /\ requests = r /\ ex.pc = "done"
                 /\ TerminalRun(ex.execution.status)
                 /\ StoredStatus(ex) = ex.execution.status)

\* A run whose second component was attempted twice and failed is over, stored
\* 'partially_completed'.
C23_Witness ==
    /\ IsRun(ex) /\ ex.pc = "done"
    /\ Len(AttemptsOf(requests, 2)) = 2
    /\ StoredStatus(ex) = "partially_completed"
    /\ ex.execution.status = "partially_completed"

----------------------------------------------------------------------------
\* The sum of the row counts of a batch none of whose statements raises.
RECURSIVE AffectedRows(_, _, _, _)
AffectedRows(query, rows, params_list, k) ==
    IF k > Len(params_list) THEN 0
    ELSE LET s == CursorExecute(query, rows, params_list[k])
         IN s.rowcount + AffectedRows(query, s.rows, params_list, k + 1)

\* C24: after execute_batch, if the statement raised for some parameter set
\* the table is what it was before the call; if it raised for none, every
\* parameter set has been applied and the value returned is the sum of the
\* affected rows.
C24_BatchAllOrNothing ==
    database.call.method = "execute_batch" =>
        LET c == database.call
            loop == BatchLoop(c.query, c.before, c.params, 1, 0)
        IN IF loop.raised_at # 0
           THEN database.rows = c.before
           ELSE /\ database.rows = loop.rows
                /\ c.returned = AffectedRows(c.query, c.before, c.params, 1)

----------------------------------------------------------------------------
\* The offsets of the source messages the filter accepts, in source order.
Passing(source) == SelectSeq([k \in 1..Len(source) |-> k],
                            LAMBDA k : source[k])

\* C25: when replay_topic_to_topic has returned, the target topic holds the
\* first messages of the source topic that pass the filter, in source order;
\* they are flushed; the value returned is their number; and under a limit
\* L >= 1 that number is min(L, number of source messages passing the filter).
C25_ReplayForwardsFilteredPrefix ==
    broker.pc = "returned" =>
        /\ IsPrefix(broker.target, Passing(broker.source))
        /\ broker.flushed = Len(broker.target)
        /\ broker.returned = Len(broker.target)
        /\ broker.limit >= 1 =>
              Len(broker.target) = Min(broker.limit,
                                       Len(Passing(broker.source)))

----------------------------------------------------------------------------
\* C26: once a document exported from the workflow has been uploaded, the
\* workflow has the components of the document: as many, in the same order
\* and with the same orders, types and configs.
C26_YamlRoundTrip ==
    yaml_file.uploaded =>
        /\ Len(all_components) = Len(yaml_file.components)
        /\ \A k \in 1..Len(yaml_file.components) :
              /\ all_components[k].order = yaml_file.components[k].order
              /\ all_components[k].component_type = yaml_file.components[k].type
              /\ all_components[k].config = yaml_file.components[k].config

----------------------------------------------------------------------------
\* The component with id c.
ComponentOf(c) == CHOOSE x \in Range(all_components) : x.id = c

\* C27: every attempt of a Sub Run is an attempt a Full Run could have made
\* of the same component: under some behaviour of the backends the Full Run's
\* operation makes the same connector calls, with the same calls failing, and
\* ends the same way.
C27_SubRunExecutesLikeFullRun ==
    \A k \in 1..Len(dispatches) :
        dispatches[k].kind = "sub" =>
            \E b \in Backends :
                LET r == simulate_component(ComponentOf(dispatches[k].component), b)
                IN /\ r.calls = dispatches[k].calls
                   /\ r.failed = dispatches[k].failed
                   /\ r.raised <=> dispatches[k].outcome = "error"

----------------------------------------------------------------------------
\* C28: when a run has ended 'failed' under required validation and a
\* component of it exhausted its retries, the stored status row of that
\* component is 'failed', carries the error message and the retry count, and
\* has completed_at set.
C28_AbortedComponentStoredFailed ==
    (/\ IsRun(ex) /\ ex.pc = "done"
     /\ Required(ex)
     /\ StoredStatus(ex) = "failed") =>
        \A k \in 1..Len(ex.components) :
            Exhausted(requests, ex.components[k].id) =>
                \A pk \in RowsOf(ex, k) :
                    /\ statuses[pk].status = "failed"
                    /\ statuses[pk].error_message # ""
                    /\ statuses[pk].retry_count >= 1
                    /\ statuses[pk].completed_at # Null

----------------------------------------------------------------------------
\* The stored status rows of Full Run id that are 'running'.
RunningRows(id) ==
    {pk \in 1..Len(statuses) : /\ statuses[pk].workflow_execution = id
                               /\ statuses[pk].status = "running"}

\* C29: in every stored state no run has two status rows that are 'running'.
C29_AtMostOneRunningRow ==
    \A id \in 1..Len(executions) : Cardinality(RunningRows(id)) <= 1

----------------------------------------------------------------------------
\* C30: whenever no handler is at work, a Full Run is stored 'completed' if
\* and only if every status row of it is 'completed'.
C30_RunCompletedIffAllRowsCompleted ==
    Free =>
        \A id \in 1..Len(executions) :
            executions[id].status = "completed" <=>
                \A pk \in 1..Len(statuses) :
                    statuses[pk].workflow_execution = id =>
                        statuses[pk].status = "completed"

----------------------------------------------------------------------------
\* The Full Run whose status rows the attempt recorded as dispatch d worked on.
RunOf(d) ==
    IF d.kind = "sub" THEN sub_executions[d.id].parent_execution ELSE d.id

\* The attempts made of component c on the rows of Full Run w.
AttemptsOn(w, c) ==
    SelectSeq(dispatches, LAMBDA d : d.component = c /\ RunOf(d) = w)

\* The failed attempts of the latest execution of component c on Full Run w:
\* those made by the handler that made the last attempt.
LatestFailures(w, c) ==
    LET a == AttemptsOn(w, c)
    IN IF a = <<>> THEN 0
       ELSE Len(SelectSeq(a, LAMBDA d : /\ d.request = a[Len(a)].request
                                        /\ d.outcome = "error"))

\* C31: a stored status row that is 'completed' has an empty error_message
\* and a retry_count equal to the number of failed attempts of the latest
\* execution of its component on its run.
C31_CompletedRowDescribesLatestExecution ==
    \A pk \in 1..Len(statuses) :
        statuses[pk].status = "completed" =>
            /\ statuses[pk].error_message = ""
            /\ statuses[pk].retry_count =
                  LatestFailures(statuses[pk].workflow_execution,
                                 statuses[pk].component)

----------------------------------------------------------------------------
\* C32: a status row stored at the end of its component's window, 'completed'
\* or 'failed', has a retry_count of the number of attempts made minus one,
\* which is at most the max_retries of the component's strategy (0 without
\* one).
C32_RetryCountIsAttemptsMinusOne ==
    \A pk \in 1..Len(statuses) :
        TerminalComponent(statuses[pk].status) =>
            /\ statuses[pk].retry_count =
                  Len(AttemptsOf(requests, statuses[pk].component)) - 1
            /\ statuses[pk].retry_count <=
                  retry_strategies[statuses[pk].component].max_retries

----------------------------------------------------------------------------
\* C33: the components shown for a Sub Run are the components its executor
\* selected, whatever the endpoints and the include flags.
C33_DetailShowsSelectedComponents ==
    ex.kind = "sub" =>
        {c.id : c \in Range(sub_execution_detail(all_components,
                                                 sub_executions[ex.id]))}
            = {c.id : c \in Range(ex.components)}

----------------------------------------------------------------------------
\* C34: when a queue replay has returned, every message it took off the
\* source queue is in the target or was rejected by the filter, and the value
\* returned is the number of messages in the target.
C34_QueueReplayConservesMessages ==
    queues.pc = "returned" =>
        /\ \A m \in queues.taken :
              m \in Range(queues.target) \/ m \in queues.rejected
        /\ queues.returned = Len(queues.target)

----------------------------------------------------------------------------
\* The queries of a list run one after the other on `rows`, from the k-th
\* on, up to the first that fails: the rows reached and the failing position
\* (0 when none fails).
RECURSIVE RunQueries(_, _, _, _)
RunQueries(queries, params, rows, k) ==
    IF k > Len(queries) THEN [raised_at |-> 0, rows |-> rows]
    ELSE LET s == CursorExecute(queries[k], rows, params[k])
         IN IF s.raised THEN [raised_at |-> k, rows |-> rows]
            ELSE RunQueries(queries, params, s.rows, k + 1)

\* C35: after a 'transaction' operation on a non-empty list of queries,
\* either no query failed, all of them took effect and the attempt succeeded,
\* or a query failed, the table is what it was before and the attempt failed.
C35_TransactionOperationAtomic ==
    (database.call.method = "transaction" /\ database.call.queries # <<>>) =>
        LET c == database.call
            run == RunQueries(c.queries, c.params, c.before, 1)
        IN IF run.raised_at = 0
           THEN database.rows = run.rows /\ ~c.raised
           ELSE database.rows = c.before /\ c.raised

----------------------------------------------------------------------------
\* The executor is inside a Sub Run that selected no component.
InEmptySubRun ==
    ex.kind = "sub" /\ ex.components = <<>> /\ ex.pc \in {"init", "loop", "except"}

\* C38: a Sub Run whose selected range is empty attempts no component,
\* creates or resets no ComponentStatus record, and ends 'completed': every
\* step of such a Sub Run leaves the rows and the dispatches as they are, and
\* the step that ends it stores status 'completed'.
C38_EmptySubRunCompletesUntouched ==
    [][InEmptySubRun =>
          /\ statuses' = statuses
          /\ dispatches' = dispatches
          /\ ex'.pc \in {"loop", "done"}
          /\ ex'.pc = "done" => sub_executions'[ex.id].status = "completed"]_vars

\* A Sub Run of a parent that has rows selected nothing and has ended.
C38_Witness ==
    /\ ex.kind = "sub" /\ ex.components = <<>> /\ ex.pc = "done"
    /\ ex.parent # Null
    /\ \E pk \in 1..Len(statuses) :
          statuses[pk].workflow_execution = ex.parent /\ statuses[pk].status # "pending"
    /\ sub_executions[ex.id].status = "completed"

----------------------------------------------------------------------------
\* Both request threads have served a re-execution of a component of run id
\* and have returned.
BothReexecuted(id) ==
    /\ ex.kind = "single" /\ ex.id = id /\ ex.pc = "done"
    /\ parked.kind = "single" /\ parked.id = id /\ parked.pc = "done"

\* C36: when two executors have worked on the same run record at the same
\* time, no log entry is lost: every entry either of them appended to its
\* copy of the log is in the stored execution_log.
C36_NoLogEntryLost ==
    \A id \in 1..Len(executions) :
        BothReexecuted(id) =>
            \A entry \in Range(ex.execution.execution_log)
                           \cup Range(parked.execution.execution_log) :
                entry \in Range(executions[id].execution_log)

----------------------------------------------------------------------------
\* C37: with two Sub Runs of one parent initializing at the same time there
\* is at most one ComponentStatus row per parent run and component, and no
\* Sub Run ends 'failed'.
C37_OneRowPerParentAndComponent ==
    /\ \A parent \in 1..Len(executions), c \in 1..NumComponents :
          Cardinality(StatusRows(statuses, parent, c)) <= 1
    /\ \A id \in 1..Len(sub_executions) : sub_executions[id].status # "failed"

====
